---- MODULE Spec2Model ----
(***************************************************************************)
(* A model of the session core of fuse-rs: the dispatcher of               *)
(* src/src/request.rs (Request::dispatch), the reply objects of            *)
(* src/src/reply.rs (ReplyRaw and its typed wrappers) and the four session *)
(* fields of src/fuse/src/session.rs.  The build modelled is the           *)
(* non-macOS one (cfg(not(target_os = "macos"))).                          *)
(*                                                                         *)
(* One Dispatch step is one call of Request::dispatch on a request the     *)
(* kernel delivered.  The implementer (the Filesystem trait object) is the *)
(* environment: for every handler call it either calls the success         *)
(* terminal method of the Reply it was given, calls error(errno), moves    *)
(* the Reply to another thread, or lets it go out of scope.  Requests are  *)
(* the well-formed ones the kernel driver sends (the payload of an opcode  *)
(* has the layout of that opcode).                                         *)
(***************************************************************************)
EXTENDS Integers, Sequences, FiniteSets

(***************************************************************************)
(* Bounds of the model.                                                    *)
(***************************************************************************)
\* requests the kernel delivers in one run
MaxRequests == 3
\* Reply objects that other threads hold at the same time
MaxHeld == 1
\* longest data / directory buffer a handler replies with
MaxData == 2
\* the most entries a readdir handler tries to add to one reply
MaxAdds == 16
\* the longest extended attribute value, and the largest size asked for
MaxXattr == 6

(***************************************************************************)
(* Program constants.                                                      *)
(***************************************************************************)
ENOENT == 2
EIO == 5
EBADF == 9
ENOSYS == 38
EPROTO == 71
ERANGE == 34
EINTR == 4
EAGAIN == 11
ENODEV == 19

FUSE_KERNEL_VERSION == 7
FUSE_KERNEL_MINOR_VERSION == 26

FUSE_ASYNC_READ == 1
FUSE_POSIX_LOCKS == 2
FUSE_ATOMIC_O_TRUNC == 8
FUSE_BIG_WRITES == 32
FUSE_DONT_MASK == 64
FUSE_WRITEBACK_CACHE == 65536
FUSE_POSIX_ACL == 1048576
FUSE_IOCTL_UNRESTRICTED == 2

\* 16 * 1024 * 1024
MAX_WRITE_SIZE == 16777216

\* mem::size_of::<fuse_out_header>(): u32 + i32 + u64
SizeOfOutHeader == 16
\* mem::size_of::<fuse_in_header>()
SizeOfWriteIn == 40
PAGE_SIZE == 4096
SizeOfInHeader == 40

\* the flags the implementation supports; the bits are distinct, so | is +
INIT_FLAGS ==
    FUSE_ASYNC_READ + FUSE_BIG_WRITES + FUSE_ATOMIC_O_TRUNC + FUSE_POSIX_ACL
        + FUSE_WRITEBACK_CACHE + FUSE_DONT_MASK

(***************************************************************************)
(* Helpers: bitwise and on unsigned integers, little-endian bytes.         *)
(***************************************************************************)
RECURSIVE BitAnd(_, _)
BitAnd(a, b) ==
    IF a = 0 \/ b = 0 THEN 0
    ELSE (a % 2) * (b % 2) + 2 * BitAnd(a \div 2, b \div 2)

RECURSIVE BitOr(_, _)
BitOr(a, b) ==
    IF a = 0 THEN b
    ELSE IF b = 0 THEN a
    ELSE (IF a % 2 = 1 \/ b % 2 = 1 THEN 1 ELSE 0) + 2 * BitOr(a \div 2, b \div 2)

RECURSIVE LE(_, _)
\* the w bytes of the unsigned integer n, least significant first
LE(n, w) == IF w = 0 THEN << >> ELSE <<n % 256>> \o LE(n \div 256, w - 1)

Zeros(n) == [i \in 1..n |-> 0]

(***************************************************************************)
(* kernel.rs: the opcode enumeration.  "None" is from_u32's None.          *)
(***************************************************************************)
fuse_opcode_from_u32(n) ==
    CASE n = 1 -> "FUSE_LOOKUP"
      [] n = 2 -> "FUSE_FORGET"
      [] n = 3 -> "FUSE_GETATTR"
      [] n = 4 -> "FUSE_SETATTR"
      [] n = 5 -> "FUSE_READLINK"
      [] n = 6 -> "FUSE_SYMLINK"
      [] n = 8 -> "FUSE_MKNOD"
      [] n = 9 -> "FUSE_MKDIR"
      [] n = 10 -> "FUSE_UNLINK"
      [] n = 11 -> "FUSE_RMDIR"
      [] n = 12 -> "FUSE_RENAME"
      [] n = 13 -> "FUSE_LINK"
      [] n = 14 -> "FUSE_OPEN"
      [] n = 15 -> "FUSE_READ"
      [] n = 16 -> "FUSE_WRITE"
      [] n = 17 -> "FUSE_STATFS"
      [] n = 18 -> "FUSE_RELEASE"
      [] n = 20 -> "FUSE_FSYNC"
      [] n = 21 -> "FUSE_SETXATTR"
      [] n = 22 -> "FUSE_GETXATTR"
      [] n = 23 -> "FUSE_LISTXATTR"
      [] n = 24 -> "FUSE_REMOVEXATTR"
      [] n = 25 -> "FUSE_FLUSH"
      [] n = 26 -> "FUSE_INIT"
      [] n = 27 -> "FUSE_OPENDIR"
      [] n = 28 -> "FUSE_READDIR"
      [] n = 29 -> "FUSE_RELEASEDIR"
      [] n = 30 -> "FUSE_FSYNCDIR"
      [] n = 31 -> "FUSE_GETLK"
      [] n = 32 -> "FUSE_SETLK"
      [] n = 33 -> "FUSE_SETLKW"
      [] n = 34 -> "FUSE_ACCESS"
      [] n = 35 -> "FUSE_CREATE"
      [] n = 36 -> "FUSE_INTERRUPT"
      [] n = 37 -> "FUSE_BMAP"
      [] n = 38 -> "FUSE_DESTROY"
      [] n = 39 -> "FUSE_IOCTL"
      [] n = 40 -> "FUSE_POLL"
      [] n = 41 -> "FUSE_NOTIFY_REPLY"
      [] n = 42 -> "FUSE_BATCH_FORGET"
      [] n = 43 -> "FUSE_FALLOCATE"
      [] n = 44 -> "FUSE_READDIRPLUS"
      [] n = 45 -> "FUSE_RENAME2"
      [] n = 46 -> "FUSE_LSEEK"
      [] n = 4096 -> "CUSE_INIT"
      [] OTHER -> "None"

(***************************************************************************)
(* reply.rs: Reply objects.  A Reply is [unique, kind, sender]; sender is  *)
(* TRUE while the Option holds the sender (Some) and FALSE once send has   *)
(* taken it (None).  A message on the wire is the out-header and the byte  *)
(* groups handed to the sender with it.                                    *)
(***************************************************************************)
\* Reply::new / ReplyRaw::new
Reply_new(unique, kind) == [unique |-> unique, kind |-> kind, sender |-> TRUE]

\* mem::size_of::<T>() of the record a typed reply serializes
SizeOf(kind) ==
    CASE kind = "Entry" -> 120
      [] kind = "Attr" -> 96
      [] kind = "Open" -> 16
      [] kind = "Write" -> 8
      [] kind = "Statfs" -> 80
      [] kind = "Create" -> 136
      [] kind = "Lock" -> 24
      [] kind = "Bmap" -> 8
      [] kind = "Init" -> 64
      [] OTHER -> 0

\* as_bytes: no group for a zero-sized type, else the one group of its bytes
as_bytes(bytes) == IF Len(bytes) = 0 THEN << >> ELSE <<bytes>>

RECURSIVE FoldLen(_)
\* bytes.iter().fold(0, |l, b| l + b.len())
FoldLen(groups) ==
    IF groups = << >> THEN 0 ELSE Len(Head(groups)) + FoldLen(Tail(groups))

\* ReplyRaw::send with len counting the payload without the header
ReplyRaw_send_PayloadLenOnly(reply, err, bytes) ==
    [reply |-> [reply EXCEPT !.sender = FALSE],
     msgs |-> <<[header |-> [len |-> FoldLen(bytes),
                             error |-> 0 - err,
                             unique |-> reply.unique],
                 groups |-> bytes]>>]

\* ReplyRaw::send with the errno written without negation
ReplyRaw_send_PositiveErrno(reply, err, bytes) ==
    [reply |-> [reply EXCEPT !.sender = FALSE],
     msgs |-> <<[header |-> [len |-> SizeOfOutHeader + FoldLen(bytes),
                             error |-> err,
                             unique |-> reply.unique],
                 groups |-> bytes]>>]

\* ReplyRaw::send: takes the sender and writes header and groups in one call
\* (the u32 cast of len leaves a length below 2^32, all a reply has, unchanged)
ReplyRaw_send(reply, err, bytes) ==
    [reply |-> [reply EXCEPT !.sender = FALSE],
     msgs |-> <<[header |-> [len |-> SizeOfOutHeader + FoldLen(bytes),
                             error |-> 0 - err,
                             unique |-> reply.unique],
                 groups |-> bytes]>>]

\* Drop that replies whether or not the sender was taken
ReplyRaw_drop_Always(reply) == ReplyRaw_send(reply, EIO, << >>).msgs

\* Drop that never replies
ReplyRaw_drop_Never(reply) == << >>

\* Drop for ReplyRaw: an unsent reply is answered with EIO
ReplyRaw_drop(reply) ==
    IF reply.sender THEN ReplyRaw_send(reply, EIO, << >>).msgs ELSE << >>

\* a method that consumes self: its send, then the drop of the consumed value
Consume(s) == s.msgs \o ReplyRaw_drop(s.reply)

\* ReplyRaw::ok(data)
ReplyRaw_ok(reply, data) == Consume(ReplyRaw_send(reply, 0, as_bytes(data)))

\* ReplyRaw::error(err), and the error method of every typed reply
ReplyRaw_error(reply, err) == Consume(ReplyRaw_send(reply, err, << >>))

\* ReplyEmpty::ok
ReplyEmpty_ok(reply) == Consume(ReplyRaw_send(reply, 0, << >>))

\* ReplyData::data and ReplyDirectory::ok: the buffer is the one group
ReplyData_data(reply, data) == Consume(ReplyRaw_send(reply, 0, <<data>>))

\* the success terminal of a typed reply: ok, data, entry, attr, opened,
\* written, statfs, created, locked, bmap; data is the handler's buffer
Reply_success(reply, data) ==
    CASE reply.kind = "Empty" -> ReplyEmpty_ok(reply)
      [] reply.kind \in {"Data", "Directory"} -> ReplyData_data(reply, data)
      [] OTHER -> ReplyRaw_ok(reply, Zeros(SizeOf(reply.kind)))

(***************************************************************************)
(* reply.rs: ReplyDirectory.  The object is [reply, size, capacity, data]: *)
(* capacity is data.capacity() of the Vec, data its bytes (data.len() is   *)
(* Len(data)).                                                             *)
(***************************************************************************)
\* mem::size_of::<fuse_dirent>(): ino u64, off u64, namelen u32, typ u32
SizeOfDirent == 24

\* the capacity ReplyDirectory::new gives the buffer
NewDirectoryCapacity == 4096

\* a mode whose perm is or'ed in one bit higher than it is given
mode_from_kind_and_perm_PermShifted(kind, perm) ==
    BitOr(CASE kind = "NamedPipe" -> 4096
            [] kind = "CharDevice" -> 8192
            [] kind = "BlockDevice" -> 24576
            [] kind = "Directory" -> 16384
            [] kind = "RegularFile" -> 32768
            [] kind = "Symlink" -> 40960,
          2 * perm)

\* mode_from_kind_and_perm: S_IFIFO, S_IFCHR, S_IFBLK, S_IFDIR, S_IFREG,
\* S_IFLNK as u32, or'ed with perm as u32; perm is a u16
mode_from_kind_and_perm(kind, perm) ==
    BitOr(CASE kind = "NamedPipe" -> 4096
            [] kind = "CharDevice" -> 8192
            [] kind = "BlockDevice" -> 24576
            [] kind = "Directory" -> 16384
            [] kind = "RegularFile" -> 32768
            [] kind = "Symlink" -> 40960,
          perm)

\* fuse_attr_from_attr: the mode field of the fuse_attr made from a FileAttr
fuse_attr_from_attr(a) == mode_from_kind_and_perm(a.kind, a.perm)

RECURSIVE next_power_of_two(_, _)
\* the least power of two that is at least n, searched from the power p
next_power_of_two(n, p) == IF p >= n THEN p ELSE next_power_of_two(n, 2 * p)

\* Vec::reserve(additional) on a Vec of capacity cap holding len bytes: the
\* capacities it can leave.  Nothing changes when the room is there; else the
\* Vec grows to at least len + additional, to the next power of two or to
\* twice the old capacity, depending on the library the build uses
Vec_reserve(cap, len, additional) ==
    IF cap - len >= additional
    THEN {cap}
    ELSE {next_power_of_two(len + additional, 1),
          IF 2 * cap > len + additional THEN 2 * cap ELSE len + additional}

\* Reply::new for ReplyDirectory
ReplyDirectory_new(unique) ==
    [reply |-> Reply_new(unique, "Directory"), size |-> 0,
     capacity |-> NewDirectoryCapacity, data |-> << >>]

\* ReplyDirectory::sized: the objects it can return
ReplyDirectory_sized(d, size) ==
    {[d EXCEPT !.size = size, !.capacity = c] :
        c \in Vec_reserve(d.capacity, Len(d.data), size)}

\* add that takes a buffer filled to the brim for full
ReplyDirectory_add_FullAtBrim(d, ino, offset, kind, name) ==
    LET entlen == SizeOfDirent + Len(name)
        entsize == (entlen + 8 - 1) - ((entlen + 8 - 1) % 8)
        padlen == entsize - entlen
    IN  IF Len(d.data) + entsize >= d.capacity
        THEN [d |-> d, full |-> TRUE]
        ELSE [d |-> [d EXCEPT !.data =
                        @ \o LE(ino, 8) \o LE(offset, 8) \o LE(Len(name), 4)
                          \o LE(mode_from_kind_and_perm(kind, 0) \div 4096, 4)
                          \o name \o Zeros(padlen)],
              full |-> FALSE]

\* add that pads every entry, also one whose length is a multiple of 8
ReplyDirectory_add_PadAlways(d, ino, offset, kind, name) ==
    LET entlen == SizeOfDirent + Len(name)
        entsize == entlen + 8 - (entlen % 8)
        padlen == entsize - entlen
    IN  IF Len(d.data) + entsize > d.capacity
        THEN [d |-> d, full |-> TRUE]
        ELSE [d |-> [d EXCEPT !.data =
                        @ \o LE(ino, 8) \o LE(offset, 8) \o LE(Len(name), 4)
                          \o LE(mode_from_kind_and_perm(kind, 0) \div 4096, 4)
                          \o name \o Zeros(padlen)],
              full |-> FALSE]

\* ReplyDirectory::add: the object after the call and the bool returned.
\* x & !(8 - 1) clears the low three bits: x - x % 8.  >> 12 is \div 4096
ReplyDirectory_add(d, ino, offset, kind, name) ==
    LET entlen == SizeOfDirent + Len(name)
        entsize == (entlen + 8 - 1) - ((entlen + 8 - 1) % 8)
        padlen == entsize - entlen
    IN  IF Len(d.data) + entsize > d.capacity
        THEN [d |-> d, full |-> TRUE]
        ELSE [d |-> [d EXCEPT !.data =
                        @ \o LE(ino, 8) \o LE(offset, 8) \o LE(Len(name), 4)
                          \o LE(mode_from_kind_and_perm(kind, 0) \div 4096, 4)
                          \o name \o Zeros(padlen)],
              full |-> FALSE]

\* ReplyDirectory::ok: self.reply.send(0, &[&self.data]), then self is dropped
ReplyDirectory_ok(d) == ReplyData_data(d.reply, d.data)

\* ReplyDirectory::error
ReplyDirectory_error(d, err) == ReplyRaw_error(d.reply, err)

(***************************************************************************)
(* session.rs: the FUSE_GETXATTR arm of Session::dispatch and the handler  *)
(* it gives the request.  A result is [ok, value, errno]: Ok(value) or     *)
(* Err(errno).                                                             *)
(***************************************************************************)
\* send_reply: the reply for a result, Ok(bytes) or Err(errno)
send_reply(unique, result) ==
    IF result.ok
    THEN ReplyRaw_ok(Reply_new(unique, "Data"), result.value)
    ELSE ReplyRaw_error(Reply_new(unique, "Data"), result.errno)

\* the bytes of a fuse_getxattr_out { size, padding: 0 }
fuse_getxattr_out_bytes(size) == LE(size, 4) \o LE(0, 4)

\* a handler that refuses a value as long as the size asked for
getxattr_handler_FitsStrictly(unique, size, result) ==
    IF size = 0
    THEN send_reply(unique,
                    IF result.ok
                    THEN [result EXCEPT
                            !.value = fuse_getxattr_out_bytes(Len(result.value))]
                    ELSE result)
    ELSE send_reply(unique,
                    IF result.ok /\ Len(result.value) >= size
                    THEN [ok |-> FALSE, value |-> << >>, errno |-> ERANGE]
                    ELSE result)

\* the handler of a GETXATTR request for size bytes, called with the result
\* of the implementer
getxattr_handler(unique, size, result) ==
    IF size = 0
    THEN send_reply(unique,
                    IF result.ok
                    THEN [result EXCEPT
                            !.value = fuse_getxattr_out_bytes(Len(result.value))]
                    ELSE result)
    ELSE send_reply(unique,
                    IF result.ok /\ Len(result.value) > size
                    THEN [ok |-> FALSE, value |-> << >>, errno |-> ERANGE]
                    ELSE result)

(***************************************************************************)
(* request.rs: Request::dispatch.                                          *)
(***************************************************************************)
\* the bytes of a fuse_init_out (repr(C), little-endian host)
fuse_init_out_bytes(init) ==
    LE(init.major, 4) \o LE(init.minor, 4) \o LE(init.max_readahead, 4)
        \o LE(init.flags, 4) \o LE(init.max_background, 2)
        \o LE(init.congestion_threshold, 2) \o LE(init.max_write, 4)
        \o LE(init.time_gran, 4) \o Zeros(36)

\* the Filesystem method an opcode is routed to ("" for the arms that call none)
Method(opcode) ==
    CASE opcode = "FUSE_LOOKUP" -> "lookup"
      [] opcode = "FUSE_FORGET" -> "forget"
      [] opcode = "FUSE_GETATTR" -> "getattr"
      [] opcode = "FUSE_SETATTR" -> "setattr"
      [] opcode = "FUSE_READLINK" -> "readlink"
      [] opcode = "FUSE_MKNOD" -> "mknod"
      [] opcode = "FUSE_MKDIR" -> "mkdir"
      [] opcode = "FUSE_UNLINK" -> "unlink"
      [] opcode = "FUSE_RMDIR" -> "rmdir"
      [] opcode = "FUSE_SYMLINK" -> "symlink"
      [] opcode = "FUSE_RENAME" -> "rename"
      [] opcode = "FUSE_RENAME2" -> "rename2"
      [] opcode = "FUSE_LINK" -> "link"
      [] opcode = "FUSE_OPEN" -> "open"
      [] opcode = "FUSE_READ" -> "read"
      [] opcode = "FUSE_WRITE" -> "write"
      [] opcode = "FUSE_FLUSH" -> "flush"
      [] opcode = "FUSE_RELEASE" -> "release"
      [] opcode = "FUSE_FSYNC" -> "fsync"
      [] opcode = "FUSE_OPENDIR" -> "opendir"
      [] opcode = "FUSE_READDIR" -> "readdir"
      [] opcode = "FUSE_READDIRPLUS" -> "readdirplus"
      [] opcode = "FUSE_RELEASEDIR" -> "releasedir"
      [] opcode = "FUSE_FSYNCDIR" -> "fsyncdir"
      [] opcode = "FUSE_STATFS" -> "statfs"
      [] opcode = "FUSE_SETXATTR" -> "setxattr"
      [] opcode = "FUSE_GETXATTR" -> "getxattr"
      [] opcode = "FUSE_LISTXATTR" -> "listxattr"
      [] opcode = "FUSE_REMOVEXATTR" -> "removexattr"
      [] opcode = "FUSE_ACCESS" -> "access"
      [] opcode = "FUSE_CREATE" -> "create"
      [] opcode = "FUSE_GETLK" -> "getlk"
      [] opcode \in {"FUSE_SETLK", "FUSE_SETLKW"} -> "setlk"
      [] opcode = "FUSE_BMAP" -> "bmap"
      [] opcode = "FUSE_IOCTL" -> "ioctl"
      [] opcode = "FUSE_BATCH_FORGET" -> "forget_multi"
      [] opcode = "FUSE_FALLOCATE" -> "fallocate"
      [] opcode = "FUSE_LSEEK" -> "lseek"
      [] OTHER -> ""

\* the typed Reply a routed opcode hands to its handler
ReplyKind(opcode) ==
    CASE opcode \in {"FUSE_LOOKUP", "FUSE_MKNOD", "FUSE_MKDIR", "FUSE_SYMLINK",
                     "FUSE_LINK"} -> "Entry"
      [] opcode \in {"FUSE_GETATTR", "FUSE_SETATTR"} -> "Attr"
      [] opcode \in {"FUSE_READLINK", "FUSE_READ", "FUSE_GETXATTR",
                     "FUSE_LISTXATTR", "FUSE_IOCTL"} -> "Data"
      [] opcode \in {"FUSE_OPEN", "FUSE_OPENDIR"} -> "Open"
      [] opcode \in {"FUSE_WRITE", "FUSE_LSEEK"} -> "Write"
      [] opcode \in {"FUSE_READDIR", "FUSE_READDIRPLUS"} -> "Directory"
      [] opcode = "FUSE_STATFS" -> "Statfs"
      [] opcode = "FUSE_CREATE" -> "Create"
      [] opcode = "FUSE_GETLK" -> "Lock"
      [] opcode = "FUSE_BMAP" -> "Bmap"
      [] OTHER -> "Empty"

\* Request::reply: a Reply for this request's unique
Request_reply(req, kind) == Reply_new(req.unique, kind)

\* what a handler does with the Reply it was given: a terminal method, a move
\* to another thread, or nothing (the Reply is dropped when the handler returns)
Handler(reply, fs) ==
    CASE fs.act = "ok" -> [msgs |-> Reply_success(reply, Zeros(fs.datalen)), moved |-> {}]
      [] fs.act = "error" -> [msgs |-> ReplyRaw_error(reply, fs.errno), moved |-> {}]
      [] fs.act = "move" -> [msgs |-> << >>, moved |-> {reply}]
      [] OTHER -> [msgs |-> ReplyRaw_drop(reply), moved |-> {}]

\* the methods of trait Filesystem (macOS-only ones left out)
FilesystemMethods ==
    {"init", "destroy", "lookup", "forget", "getattr", "setattr", "readlink",
     "mknod", "mkdir", "unlink", "rmdir", "symlink", "rename", "link", "open",
     "read", "write", "flush", "release", "fsync", "opendir", "readdir",
     "releasedir", "fsyncdir", "statfs", "setxattr", "getxattr", "listxattr",
     "removexattr", "access", "create", "getlk", "setlk", "bmap"}

\* default methods in which open and opendir answer ENOSYS like the rest
Filesystem_default_OpenENOSYS(method) ==
    CASE method \in {"release", "releasedir", "statfs"} ->
           [act |-> "ok", errno |-> 0, datalen |-> 0, init_res |-> 0]
      [] method \in {"init", "destroy", "forget"} ->
           [act |-> "drop", errno |-> 0, datalen |-> 0, init_res |-> 0]
      [] OTHER ->
           [act |-> "error", errno |-> ENOSYS, datalen |-> 0, init_res |-> 0]

\* the default methods of trait Filesystem, as what is done with the Reply:
\* Ok(..) is the success reply, Err(ENOSYS) the error reply; init returns
\* Ok(()), destroy and forget return nothing and have no Reply
Filesystem_default(method) ==
    CASE method \in {"open", "opendir", "release", "releasedir", "statfs"} ->
           [act |-> "ok", errno |-> 0, datalen |-> 0, init_res |-> 0]
      [] method \in {"init", "destroy", "forget"} ->
           [act |-> "drop", errno |-> 0, datalen |-> 0, init_res |-> 0]
      [] OTHER ->
           [act |-> "error", errno |-> ENOSYS, datalen |-> 0, init_res |-> 0]

\* the outcome of a dispatch arm that calls no handler and replies itself
Answered(se, msgs) == [se |-> se, called |-> << >>, msgs |-> msgs, moved |-> {}]

\* version check that looks at the major version only
UnsupportedAbi_MajorOnly(major, minor) == major < 7

\* the version check of the FUSE_INIT arm
UnsupportedAbi(major, minor) == major < 7 \/ (major = 7 /\ minor < 6)

\* FUSE_INIT arm that marks the session initialized before calling init
DispatchInit_EarlyInitialized(req, se, fs) ==
    LET reply == Request_reply(req, "Init")
        se1 == [se EXCEPT !.proto_major = req.major, !.proto_minor = req.minor,
                          !.initialized = TRUE]
        init == [major |-> FUSE_KERNEL_VERSION,
                 minor |-> FUSE_KERNEL_MINOR_VERSION,
                 max_readahead |-> req.max_readahead,
                 flags |-> BitAnd(req.flags, INIT_FLAGS),
                 max_background |-> 0,
                 congestion_threshold |-> 0,
                 max_write |-> MAX_WRITE_SIZE,
                 time_gran |-> 1]
    IN  IF UnsupportedAbi(req.major, req.minor)
        THEN Answered(se, ReplyRaw_error(reply, EPROTO))
        ELSE IF fs.init_res # 0
        THEN [se |-> se1, called |-> <<"init">>,
              msgs |-> ReplyRaw_error(reply, fs.init_res), moved |-> {}]
        ELSE [se |-> se1, called |-> <<"init">>,
              msgs |-> ReplyRaw_ok(reply, fuse_init_out_bytes(init)), moved |-> {}]

\* FUSE_INIT arm that advertises INIT_FLAGS whatever the kernel offered
DispatchInit_AllFlags(req, se, fs) ==
    LET reply == Request_reply(req, "Init")
        se1 == [se EXCEPT !.proto_major = req.major, !.proto_minor = req.minor]
        init == [major |-> FUSE_KERNEL_VERSION,
                 minor |-> FUSE_KERNEL_MINOR_VERSION,
                 max_readahead |-> req.max_readahead,
                 flags |-> INIT_FLAGS,
                 max_background |-> 0,
                 congestion_threshold |-> 0,
                 max_write |-> MAX_WRITE_SIZE,
                 time_gran |-> 1]
    IN  IF UnsupportedAbi(req.major, req.minor)
        THEN Answered(se, ReplyRaw_error(reply, EPROTO))
        ELSE IF fs.init_res # 0
        THEN [se |-> se1, called |-> <<"init">>,
              msgs |-> ReplyRaw_error(reply, fs.init_res), moved |-> {}]
        ELSE [se |-> [se1 EXCEPT !.initialized = TRUE], called |-> <<"init">>,
              msgs |-> ReplyRaw_ok(reply, fuse_init_out_bytes(init)), moved |-> {}]

\* FUSE_INIT arm that stores the announced version before it checks it
DispatchInit_StoresRejectedVersion(req, se, fs) ==
    LET reply == Request_reply(req, "Init")
        se1 == [se EXCEPT !.proto_major = req.major, !.proto_minor = req.minor]
        init == [major |-> FUSE_KERNEL_VERSION,
                 minor |-> FUSE_KERNEL_MINOR_VERSION,
                 max_readahead |-> req.max_readahead,
                 flags |-> BitAnd(req.flags, INIT_FLAGS),
                 max_background |-> 0,
                 congestion_threshold |-> 0,
                 max_write |-> MAX_WRITE_SIZE,
                 time_gran |-> 1]
    IN  IF UnsupportedAbi(req.major, req.minor)
        THEN Answered(se1, ReplyRaw_error(reply, EPROTO))
        ELSE IF fs.init_res # 0
        THEN [se |-> se1, called |-> <<"init">>,
              msgs |-> ReplyRaw_error(reply, fs.init_res), moved |-> {}]
        ELSE [se |-> [se1 EXCEPT !.initialized = TRUE], called |-> <<"init">>,
              msgs |-> ReplyRaw_ok(reply, fuse_init_out_bytes(init)), moved |-> {}]

\* the FUSE_INIT arm
DispatchInit(req, se, fs) ==
    LET reply == Request_reply(req, "Init")
        se1 == [se EXCEPT !.proto_major = req.major, !.proto_minor = req.minor]
        init == [major |-> FUSE_KERNEL_VERSION,
                 minor |-> FUSE_KERNEL_MINOR_VERSION,
                 max_readahead |-> req.max_readahead,
                 flags |-> BitAnd(req.flags, INIT_FLAGS),
                 max_background |-> 0,
                 congestion_threshold |-> 0,
                 max_write |-> MAX_WRITE_SIZE,
                 time_gran |-> 1]
    IN  IF UnsupportedAbi(req.major, req.minor)
        THEN Answered(se, ReplyRaw_error(reply, EPROTO))
        ELSE IF fs.init_res # 0
        THEN [se |-> se1, called |-> <<"init">>,
              msgs |-> ReplyRaw_error(reply, fs.init_res), moved |-> {}]
        ELSE [se |-> [se1 EXCEPT !.initialized = TRUE], called |-> <<"init">>,
              msgs |-> ReplyRaw_ok(reply, fuse_init_out_bytes(init)), moved |-> {}]

\* routing that sends an empty reply after forget and forget_multi
DispatchOperation_ForgetReplies(req, se, fs, opcode) ==
    IF \/ opcode \in {"FUSE_INTERRUPT", "FUSE_POLL", "FUSE_NOTIFY_REPLY", "CUSE_INIT"}
       \/ opcode = "FUSE_IOCTL" /\ BitAnd(req.ioctl_flags, FUSE_IOCTL_UNRESTRICTED) > 0
    THEN Answered(se, ReplyRaw_error(Request_reply(req, "Empty"), ENOSYS))
    ELSE IF opcode \in {"FUSE_FORGET", "FUSE_BATCH_FORGET"}
    THEN [se |-> se, called |-> <<Method(opcode)>>,
          msgs |-> ReplyEmpty_ok(Request_reply(req, "Empty")), moved |-> {}]
    ELSE LET h == Handler(Request_reply(req, ReplyKind(opcode)), fs)
         IN  [se |-> se, called |-> <<Method(opcode)>>, msgs |-> h.msgs,
              moved |-> h.moved]

\* routing that hands every IOCTL to ioctl, unrestricted ones included
DispatchOperation_IoctlUnchecked(req, se, fs, opcode) ==
    IF opcode \in {"FUSE_INTERRUPT", "FUSE_POLL", "FUSE_NOTIFY_REPLY", "CUSE_INIT"}
    THEN Answered(se, ReplyRaw_error(Request_reply(req, "Empty"), ENOSYS))
    ELSE IF opcode \in {"FUSE_FORGET", "FUSE_BATCH_FORGET"}
    THEN [se |-> se, called |-> <<Method(opcode)>>, msgs |-> << >>, moved |-> {}]
    ELSE LET h == Handler(Request_reply(req, ReplyKind(opcode)), fs)
         IN  [se |-> se, called |-> <<Method(opcode)>>, msgs |-> h.msgs,
              moved |-> h.moved]

\* the arms after the init and destroy guards: the routing of an operation
DispatchOperation(req, se, fs, opcode) ==
    IF \/ opcode \in {"FUSE_INTERRUPT", "FUSE_POLL", "FUSE_NOTIFY_REPLY", "CUSE_INIT"}
       \/ opcode = "FUSE_IOCTL" /\ BitAnd(req.ioctl_flags, FUSE_IOCTL_UNRESTRICTED) > 0
    THEN Answered(se, ReplyRaw_error(Request_reply(req, "Empty"), ENOSYS))
    ELSE IF opcode \in {"FUSE_FORGET", "FUSE_BATCH_FORGET"}
    THEN [se |-> se, called |-> <<Method(opcode)>>, msgs |-> << >>, moved |-> {}]
    ELSE LET h == Handler(Request_reply(req, ReplyKind(opcode)), fs)
         IN  [se |-> se, called |-> <<Method(opcode)>>, msgs |-> h.msgs,
              moved |-> h.moved]

\* dispatch whose pre-init guard comes before the unknown-opcode and INIT arms
Request_dispatch_GuardFirst(req, se, fs) ==
    LET opcode == fuse_opcode_from_u32(req.opcode)
    IN  IF ~se.initialized /\ opcode # "FUSE_INIT"
        THEN Answered(se, ReplyRaw_error(Request_reply(req, "Empty"), EIO))
        ELSE IF opcode = "None"
        THEN Answered(se, ReplyRaw_error(Request_reply(req, "Empty"), EIO))
        ELSE IF opcode = "FUSE_INIT" THEN DispatchInit(req, se, fs)
        ELSE IF opcode = "FUSE_DESTROY"
        THEN [se |-> [se EXCEPT !.destroyed = TRUE], called |-> <<"destroy">>,
              msgs |-> ReplyEmpty_ok(Request_reply(req, "Empty")), moved |-> {}]
        ELSE IF se.destroyed
        THEN Answered(se, ReplyRaw_error(Request_reply(req, "Empty"), EIO))
        ELSE DispatchOperation(req, se, fs, opcode)

\* dispatch without the pre-init and after-destroy guards
Request_dispatch_NoGuards(req, se, fs) ==
    LET opcode == fuse_opcode_from_u32(req.opcode)
    IN  IF opcode = "None"
        THEN Answered(se, ReplyRaw_error(Request_reply(req, "Empty"), ENOSYS))
        ELSE IF opcode = "FUSE_INIT" THEN DispatchInit(req, se, fs)
        ELSE IF opcode = "FUSE_DESTROY"
        THEN [se |-> [se EXCEPT !.destroyed = TRUE], called |-> <<"destroy">>,
              msgs |-> ReplyEmpty_ok(Request_reply(req, "Empty")), moved |-> {}]
        ELSE DispatchOperation(req, se, fs, opcode)

\* dispatch whose FUSE_DESTROY arm comes before the pre-init guard
Request_dispatch_DestroyFirst(req, se, fs) ==
    LET opcode == fuse_opcode_from_u32(req.opcode)
    IN  IF opcode = "None"
        THEN Answered(se, ReplyRaw_error(Request_reply(req, "Empty"), ENOSYS))
        ELSE IF opcode = "FUSE_INIT" THEN DispatchInit(req, se, fs)
        ELSE IF opcode = "FUSE_DESTROY"
        THEN [se |-> [se EXCEPT !.destroyed = TRUE], called |-> <<"destroy">>,
              msgs |-> ReplyEmpty_ok(Request_reply(req, "Empty")), moved |-> {}]
        ELSE IF ~se.initialized \/ se.destroyed
        THEN Answered(se, ReplyRaw_error(Request_reply(req, "Empty"), EIO))
        ELSE DispatchOperation(req, se, fs, opcode)

\* Request::dispatch: the new session fields, the Filesystem methods called,
\* the messages sent before it returns, and the Replies moved to other threads
Request_dispatch(req, se, fs) ==
    LET opcode == fuse_opcode_from_u32(req.opcode)
    IN  IF opcode = "None"
        THEN Answered(se, ReplyRaw_error(Request_reply(req, "Empty"), ENOSYS))
        ELSE IF opcode = "FUSE_INIT" THEN DispatchInit(req, se, fs)
        ELSE IF ~se.initialized
        THEN Answered(se, ReplyRaw_error(Request_reply(req, "Empty"), EIO))
        ELSE IF opcode = "FUSE_DESTROY"
        THEN [se |-> [se EXCEPT !.destroyed = TRUE], called |-> <<"destroy">>,
              msgs |-> ReplyEmpty_ok(Request_reply(req, "Empty")), moved |-> {}]
        ELSE IF se.destroyed
        THEN Answered(se, ReplyRaw_error(Request_reply(req, "Empty"), EIO))
        ELSE DispatchOperation(req, se, fs, opcode)

(***************************************************************************)
(* The state: the session fields, the read loop's position and request,    *)
(* the Reply objects other threads hold, and what was written to the       *)
(* channel.                                                                *)
(***************************************************************************)
VARIABLES
    proto_major,   \* Session.proto_major
    proto_minor,   \* Session.proto_minor
    initialized,   \* Session.initialized
    destroyed,     \* Session.destroyed
    pc,            \* the session: "unborn" before Session::new, "created" once
                   \* mounted ("nomount" if the mount failed); then the read
                   \* loop: "receive", "failed", "dispatch", "return"; "done"
                   \* once run returned, "exited" once the Session is dropped
    request,       \* the Request of this loop iteration
    unique,        \* requests delivered so far; request n carries unique n
    held,          \* the Reply objects that were moved to other threads
    sent,          \* sent[u]: out-headers with unique u given to the sender so
                   \* far, each written by one writev unless that write failed
    owed,          \* owed[u]: 1 if request u is owed a reply, 0 if not
    wire,          \* the messages written by the last step, who wrote them, for
                   \* which unique, what the holder of the Reply chose to do, and
                   \* how the sender's write went
    last,          \* the dispatch that just ended: session before it, calls made
    mounted,       \* the mountpoint is mounted
    rd,            \* errno of the channel read just made, 0 if it succeeded
    run_result,    \* what Session::run returned, once it has
    bg,            \* the BackgroundSession handle and what its drop did
    dir,           \* the ReplyDirectory a readdir handler fills: the object,
                   \* the listing it adds, what add returned, what was sent
    xattr,         \* the GETXATTR being served: the size asked for, the result
                   \* of the handler, what was sent
    chan,          \* Session.channel: its fd, and the system calls its drop made
    attr,          \* a FileAttr given to an attr or entry reply, and the mode
                   \* of the fuse_attr made from it
    parse,         \* a received buffer, the way it came, and what parsing it
                   \* gave: a Request with its payload, or None
    setattr,       \* a SETATTR being dispatched: the target, the valid mask,
                   \* and the arguments the handler was called with
    legacy         \* the Session of src/src/session.rs dispatching an INIT:
                   \* its fields, the methods called, the reply sent

vars == <<proto_major, proto_minor, initialized, destroyed, pc, request, unique,
          held, sent, owed, wire, last, mounted, rd, run_result, bg, dir, xattr,
          chan, attr, parse, setattr, legacy>>

\* what handlers of single requests work on, apart from the loop, and the
\* channel, which only the making and the drop of the Session change
aside == <<dir, xattr, chan, attr, parse, setattr, legacy>>

\* the session fields
session == <<proto_major, proto_minor, initialized, destroyed>>

\* the mount, the result of run and the handle
outside == <<mounted, run_result, bg>>

Uniques == 1..MaxRequests

\* errno values a handler answers with
Errnos == {ENOENT, ENOSYS}

\* opcode numbers the kernel sends: the enumeration, its gaps (0, 7, 19), the
\* macOS numbers (61) and numbers past it (47, 4097)
OpcodeNumbers == 0..47 \cup {61, 4096, 4097}

\* ABI versions, readahead sizes and capability flags of INIT requests
InitMajors == {6, 7, 8}
InitMinors == {5, 6, 23}
InitReadahead == {0, 131072}
\* (one supported and one unsupported bit; bits 0..20 and bit 30)
InitFlags == {FUSE_ASYNC_READ + FUSE_POSIX_LOCKS, 2 ^ 30 + 2 ^ 21 - 1}

\* flags of IOCTL requests
IoctlFlags == {0, FUSE_IOCTL_UNRESTRICTED}

\* the kinds of Reply the implementer hands to other threads: one without
\* payload, one with a byte buffer, one with a record
MovableKinds == {"Empty", "Data", "Entry"}

PlainRequest(u, n) ==
    [opcode |-> n, unique |-> u, major |-> 0, minor |-> 0, max_readahead |-> 0,
     flags |-> 0, ioctl_flags |-> 0]

\* the requests the kernel may deliver with unique u
Requests(u) ==
    {PlainRequest(u, n) : n \in OpcodeNumbers \ {26, 39}}
    \cup {[PlainRequest(u, 39) EXCEPT !.ioctl_flags = f] : f \in IoctlFlags}
    \cup {[PlainRequest(u, 26) EXCEPT !.major = ma, !.minor = mi,
                                      !.max_readahead = ra, !.flags = fl] :
            ma \in InitMajors, mi \in InitMinors, ra \in InitReadahead,
            fl \in InitFlags}

\* the method a request is routed to once the guards let it through
MethodOf(req) ==
    LET opcode == fuse_opcode_from_u32(req.opcode)
    IN  CASE opcode = "FUSE_INIT" -> "init"
          [] opcode = "FUSE_DESTROY" -> "destroy"
          [] OTHER -> Method(opcode)

\* the requests served by a filesystem that overrides no method: those
\* routed to a method of trait Filesystem, INIT being of ABI 7.6 or 6.5
NullRequests(u) ==
    {PlainRequest(u, n) : n \in {m \in OpcodeNumbers \ {26} :
                                    MethodOf(PlainRequest(u, m)) \in FilesystemMethods}}
    \cup {[PlainRequest(u, 26) EXCEPT !.major = ma, !.minor = mi] :
            ma \in {6, 7}, mi \in {5, 6}}

\* the requests the kernel delivers to a background session: INIT 7.6, a
\* GETATTR, a READ, a DESTROY and a number outside the enumeration
BgRequests(u) ==
    {PlainRequest(u, n) : n \in {0, 3, 15, 38}}
    \cup {[PlainRequest(u, 26) EXCEPT !.major = 7, !.minor = 6]}

NoChoice == [act |-> "drop", errno |-> 0, datalen |-> 0, init_res |-> 0]

\* what the holder of a Reply of this kind may do with it
ReplyChoices(kind) ==
    {[NoChoice EXCEPT !.act = "ok", !.datalen = n] :
        n \in IF kind \in {"Data", "Directory"} THEN 0..MaxData ELSE {0}}
    \cup {[NoChoice EXCEPT !.act = "error", !.errno = e] : e \in Errnos}
    \cup {NoChoice}
    \cup IF kind \in MovableKinds THEN {[NoChoice EXCEPT !.act = "move"]} ELSE {}

\* what the implementer may do when it is given this request
FsChoices(req) ==
    LET opcode == fuse_opcode_from_u32(req.opcode)
    IN  IF opcode = "FUSE_INIT"
        THEN {[NoChoice EXCEPT !.init_res = e] : e \in {0} \cup Errnos}
        ELSE ReplyChoices(ReplyKind(opcode))

NoRequest == PlainRequest(0, 0)
\* ChannelSender::send: the errno of its writev, 0 if it wrote.  The sender
\* holds a copy of the fd number; once the Channel has closed the fd the
\* write fails with EBADF
ChannelSender_send(ch) == IF ch.fd = "closed" THEN EBADF ELSE 0

\* a send that unwraps the result of the write
ReplySender_send_Unwraps(ch) ==
    [errno |-> ChannelSender_send(ch), logged |-> FALSE,
     panicked |-> ChannelSender_send(ch) # 0]

\* ReplySender::send for ChannelSender: an Err of the write is logged with
\* error! and dropped; the call returns () either way
ReplySender_send(ch) ==
    [errno |-> ChannelSender_send(ch), logged |-> ChannelSender_send(ch) # 0,
     panicked |-> FALSE]

NoWire ==
    [by |-> "none", of |-> 0, fs |-> NoChoice, msgs |-> << >>,
     err |-> [errno |-> 0, logged |-> FALSE, panicked |-> FALSE]]
NoLast ==
    [initialized |-> FALSE, destroyed |-> FALSE, proto_major |-> 0,
     proto_minor |-> 0, called |-> << >>, moved |-> FALSE]

\* the reply sizes a READDIR request asks for: two entries' worth, a page,
\* and one that is no power of two
DirSizes == {64, NewDirectoryCapacity, 5000}

\* a name of len bytes
Name(len) == [i \in 1..len |-> 97 + (i % 26)]

FileTypes ==
    <<"NamedPipe", "CharDevice", "BlockDevice", "Directory", "RegularFile",
      "Symlink">>

\* the directories a handler lists: "test" starts with the entries "hello" and
\* "world.rs" of the test reply_directory and goes on with names of every
\* length modulo 8 and every file type; "fit" has fourteen names of 255 bytes
\* and one of 152, 4096 bytes of entries, and short names after them; "long"
\* has fifteen names of 255 bytes and short ones after them
Listings == {"test", "fit", "long"}

\* entry i of a listing
DirEntry(ls, i) ==
    CASE ls = "test" ->
           IF i = 1
           THEN [ino |-> 43707, offset |-> 1, kind |-> "Directory",
                 name |-> <<104, 101, 108, 108, 111>>]
           ELSE IF i = 2
           THEN [ino |-> 52445, offset |-> 2, kind |-> "RegularFile",
                 name |-> <<119, 111, 114, 108, 100, 46, 114, 115>>]
           ELSE [ino |-> 65536 * i, offset |-> i, kind |-> FileTypes[(i % 6) + 1],
                 name |-> Name(i - 2)]
      [] ls = "fit" ->
           [ino |-> 256 + i, offset |-> i, kind |-> "RegularFile",
            name |-> IF i < 15 THEN Name(255)
                     ELSE IF i = 15 THEN Name(152) ELSE Name(1)]
      [] ls = "long" ->
           [ino |-> 512 + i, offset |-> 2 * i, kind |-> "Symlink",
            name |-> IF i < 16 THEN Name(255) ELSE Name(1)]

\* no readdir is being answered
NoDir ==
    [st |-> "none", obj |-> ReplyDirectory_new(0), ls |-> "none",
     rets |-> << >>, msgs |-> << >>]

\* no GETXATTR is being served
NoXattr ==
    [st |-> "none", size |-> 0,
     result |-> [ok |-> FALSE, value |-> << >>, errno |-> 0], msgs |-> << >>]

\* the results an implementer gives to a GETXATTR: a value of up to MaxXattr
\* bytes, or an error
XattrResults ==
    {[ok |-> TRUE, value |-> [i \in 1..n |-> b + i], errno |-> 0] :
        n \in 0..MaxXattr, b \in {0, 64}}
    \cup {[ok |-> FALSE, value |-> << >>, errno |-> e] : e \in Errnos}

\* Option<T>
None == [some |-> FALSE, v |-> 0]
Some(v) == [some |-> TRUE, v |-> v]

\* UtimeSpec
Omit == [kind |-> "Omit", v |-> 0]
Now == [kind |-> "Now", v |-> 0]
Time(v) == [kind |-> "Time", v |-> v]

\* Bitmasks for fuse_setattr_in.valid, each given as the number n of its bit
\* (the source's 1 << n); a u32 mask is then the set of the numbers of its
\* bits, and mask & FATTR_X != 0 is membership.  1 << 31 is no TLC integer
FATTR_MODE == 0
FATTR_UID == 1
FATTR_GID == 2
FATTR_SIZE == 3
FATTR_ATIME == 4
FATTR_MTIME == 5
FATTR_FH == 6
FATTR_ATIME_NOW == 7
FATTR_MTIME_NOW == 8
FATTR_LOCKOWNER == 9
FATTR_CRTIME == 28
FATTR_CHGTIME == 29
FATTR_BKUPTIME == 30
FATTR_FLAGS == 31

\* match arg.valid & bit { 0 => None, _ => Some(v) } with the test left out
Masked_Always(valid, bit, v) == Some(v)

\* match arg.valid & bit { 0 => None, _ => Some(v) }
Masked(valid, bit, v) == IF bit \in valid THEN Some(v) ELSE None

\* atime_to_timespec and mtime_to_timespec: the Now variant and its test
\* exist on Linux only
to_timespec(os, valid, bit_now, bit, v) ==
    IF os = "linux" /\ bit_now \in valid THEN Now
    ELSE IF bit \in valid THEN Time(v)
    ELSE Omit

\* the fuse_setattr_in of the request: every field a value of its own
SetattrIn ==
    [mode |-> 420, uid |-> 1000, gid |-> 100, size |-> 13, atime |-> 11,
     mtime |-> 12, fh |-> 7, crtime |-> 21, chgtime |-> 22, bkuptime |-> 23,
     flags |-> 32]

\* the FUSE_SETATTR arm: the arguments setattr is called with
setattr_args(os, valid, arg) ==
    LET macos == os = "macos"
    IN  [mode |-> Masked(valid, FATTR_MODE, arg.mode),
         uid |-> Masked(valid, FATTR_UID, arg.uid),
         gid |-> Masked(valid, FATTR_GID, arg.gid),
         size |-> Masked(valid, FATTR_SIZE, arg.size),
         atime |-> to_timespec(os, valid, FATTR_ATIME_NOW, FATTR_ATIME, arg.atime),
         mtime |-> to_timespec(os, valid, FATTR_MTIME_NOW, FATTR_MTIME, arg.mtime),
         fh |-> Masked(valid, FATTR_FH, arg.fh),
         crtime |-> IF macos THEN Masked(valid, FATTR_CRTIME, arg.crtime) ELSE None,
         chgtime |-> IF macos THEN Masked(valid, FATTR_CHGTIME, arg.chgtime) ELSE None,
         bkuptime |-> IF macos THEN Masked(valid, FATTR_BKUPTIME, arg.bkuptime)
                      ELSE None,
         flags |-> IF macos THEN Masked(valid, FATTR_FLAGS, arg.flags) ELSE None]

\* the bits of valid a SETATTR request may carry, and the targets built for
ValidBits ==
    {FATTR_MODE, FATTR_UID, FATTR_GID, FATTR_SIZE, FATTR_ATIME, FATTR_MTIME,
     FATTR_FH, FATTR_ATIME_NOW, FATTR_MTIME_NOW, FATTR_LOCKOWNER, FATTR_CRTIME,
     FATTR_CHGTIME, FATTR_BKUPTIME, FATTR_FLAGS}
Targets == {"linux", "macos", "freebsd"}

\* no SETATTR is being dispatched
NoSetattr == [st |-> "none", os |-> "linux", valid |-> {}, call |-> << >>]

\* no INIT is being dispatched by the Session of src/src/session.rs
NoLegacy ==
    [st |-> "none", unique |-> 0, major |-> 0, minor |-> 0, max_readahead |-> 0,
     init_res |-> 0, proto_major |-> 0, proto_minor |-> 0, initialized |-> FALSE,
     called |-> << >>, msgs |-> << >>]

\* the FUSE_INIT arm of Session::dispatch in src/src/session.rs, on the
\* Session and request held in l, with an init method that returns init_res
\* (0 for Ok): the Session afterwards, the methods called, the replies given
\* to send_reply as (unique, result)
Session_dispatch(l) ==
    IF l.major < 7 \/ (l.major < 7 /\ l.minor < 6)
    THEN [l EXCEPT !.st = "dispatched",
                   !.msgs = <<[unique |-> l.unique, ok |-> FALSE, errno |-> EPROTO]>>]
    ELSE IF l.init_res # 0
    THEN [l EXCEPT !.st = "dispatched", !.proto_major = l.major,
                   !.proto_minor = l.minor, !.called = <<"init">>,
                   !.msgs = <<[unique |-> l.unique, ok |-> FALSE,
                               errno |-> l.init_res]>>]
    ELSE [l EXCEPT !.st = "dispatched", !.proto_major = l.major,
                   !.proto_minor = l.minor, !.called = <<"init">>,
                   !.initialized = TRUE,
                   !.msgs = <<[unique |-> l.unique, ok |-> TRUE, errno |-> 0]>>]

\* no buffer is being parsed
NoParse ==
    [st |-> "none", path |-> "plain", size |-> 0, len |-> 0, write |-> FALSE,
     read_ok |-> TRUE, result |-> "none", data |-> 0]

\* no FileAttr is being converted
NoAttr == [st |-> "none", kind |-> "RegularFile", perm |-> 0, mode |-> 0]

\* the values of FileAttr.perm, a u16: every value of the twelve permission
\* bits, and values with bits above them (a whole st_mode put into perm)
Perms == (0..4095) \cup {4096, 16877, 33188, 61440, 65535}

\* no Channel exists: none was made yet, or the mount failed
NoChannel == [fd |-> "none", calls |-> << >>]

\* the Channel of a mounted filesystem
Channel_new == [fd |-> "open", calls |-> << >>]

\* a Channel whose drop closes the fd and leaves the mountpoint alone
Channel_drop_CloseOnly(ch, m, u) ==
    [chan |-> [fd |-> "closed", calls |-> ch.calls \o <<"close">>],
     mounted |-> m]

\* a Channel whose drop unmounts while the fd is still open
Channel_drop_UnmountFirst(ch, m, u) ==
    [chan |-> [fd |-> "closed", calls |-> ch.calls \o <<"umount", "close">>],
     mounted |-> u.mounted]

\* Drop for Channel: close(fd), then unmount of the mountpoint, whose result
\* u is discarded; the channel and the mount afterwards
Channel_drop(ch, m, u) ==
    [chan |-> [fd |-> "closed", calls |-> ch.calls \o <<"close", "umount">>],
     mounted |-> u.mounted]

\* the io::Result<()> of Session::run
Running == [tag |-> "running", errno |-> 0]
Ok == [tag |-> "Ok", errno |-> 0]
Err(e) == [tag |-> "Err", errno |-> e]

Init ==
    /\ proto_major = 0
    /\ proto_minor = 0
    /\ initialized = FALSE
    /\ destroyed = FALSE
    /\ pc = "receive"
    /\ request = NoRequest
    /\ unique = 0
    /\ held = {}
    /\ sent = [u \in Uniques |-> 0]
    /\ owed = [u \in Uniques |-> 0]
    /\ wire = NoWire
    /\ last = NoLast
    /\ mounted = TRUE
    /\ rd = 0
    /\ run_result = Running
    /\ bg = [st |-> "none", joined |-> FALSE, logged |-> FALSE,
             unmounted |-> FALSE]
    /\ dir = NoDir
    /\ xattr = NoXattr
    /\ chan = Channel_new
    /\ attr = NoAttr
    /\ parse = NoParse
    /\ setattr = NoSetattr
    /\ legacy = NoLegacy

\* sent, with the out-headers of msgs counted
Count(msgs) ==
    [u \in Uniques |->
        sent[u] + Cardinality({i \in 1..Len(msgs) : msgs[i].header.unique = u})]

\* the opcodes whose handlers are given no Reply
NoReplyOpcode(n) == n \in {2, 42}

\* Request::new: whether a buffer of buflen bytes whose header says len is
\* accepted (Some) or refused (None)
Request_new(buflen, len) ==
    ~(buflen < SizeOfInHeader) /\ ~(buflen < len)

\* the payload of the Request that Request::new makes of a buffer of buflen
\* bytes: fetch_data takes all that follows the header
Request_new_data(buflen) == buflen - SizeOfInHeader

\* request_write_header_size() and read_limit()
request_write_header_size == SizeOfInHeader + SizeOfWriteIn
read_limit == request_write_header_size + PAGE_SIZE

\* read_request: whether the request_size bytes taken off the pipe are
\* accepted, read_ok saying that the read of the pipe succeeded
read_request(request_size, len, read_ok) == read_ok /\ request_size = len

\* Request::new_splice_write: whether size bytes spliced into the pipe, whose
\* header says len and whose opcode is or is not FUSE_WRITE, are accepted
Request_new_splice_write(size, len, write, read_ok) ==
    IF size < SizeOfInHeader THEN FALSE
    ELSE IF size < read_limit THEN read_request(size, len, read_ok)
    ELSE IF ~read_ok THEN FALSE
    ELSE IF ~write THEN read_request(size, len, read_ok)
    ELSE TRUE

\* the byte counts a read or a splice returns, and the values of header.len:
\* around the header size and around read_limit
BufferSizes ==
    {0, SizeOfInHeader - 1, SizeOfInHeader, SizeOfInHeader + 8, read_limit - 1,
     read_limit, read_limit + 8}
HeaderLens == {SizeOfInHeader, SizeOfInHeader + 8, read_limit, read_limit + 8}

\* buffers a read may return that are not a request: an empty one, one
\* shorter than a header, one shorter than its header says
IllegalBuffers ==
    {[buflen |-> 0, len |-> 0],
     [buflen |-> SizeOfInHeader - 1, len |-> SizeOfInHeader - 1],
     [buflen |-> SizeOfInHeader, len |-> SizeOfInHeader + 1]}

\* a channel whose read keeps failing with EAGAIN after the unmount
ReadErrnos_AgainWhenUnmounted(m) ==
    IF m THEN {ENOENT, EINTR, EAGAIN, EIO} ELSE {EAGAIN}

\* the errnos a failing read of the channel can return: ENODEV once the
\* filesystem is unmounted, otherwise a transient errno or another error
ReadErrnos(m) == IF m THEN {ENOENT, EINTR, EAGAIN, EIO} ELSE {ENODEV}

\* channel::unmount: the results it can return and whether the mountpoint is
\* mounted afterwards.  umount either succeeds or fails; where it fails with
\* EPERM, fuse_unmount_compat22 is called, which returns no status, and the
\* result is Ok whether or not it unmounted
unmount(m) ==
    IF m
    THEN {[ok |-> TRUE, mounted |-> FALSE], [ok |-> FALSE, mounted |-> TRUE],
          [ok |-> TRUE, mounted |-> TRUE]}
    ELSE {[ok |-> FALSE, mounted |-> FALSE], [ok |-> TRUE, mounted |-> FALSE]}

\* a loop that reads the next request while the last one awaits its dispatch
Receive_Early(req) ==
    /\ pc \in {"receive", "dispatch"}
    /\ mounted
    /\ unique < MaxRequests
    /\ req.unique = unique + 1
    /\ pc' = "dispatch"
    /\ request' = req
    /\ unique' = unique + 1
    /\ wire' = NoWire
    /\ rd' = 0
    /\ UNCHANGED <<aside, session, held, sent, owed, last, outside>>

\* the read loop receives the next request of the kernel
Receive(req) ==
    /\ pc = "receive"
    /\ mounted
    /\ unique < MaxRequests
    /\ req.unique = unique + 1
    /\ pc' = "dispatch"
    /\ request' = req
    /\ unique' = unique + 1
    /\ wire' = NoWire
    /\ rd' = 0
    /\ UNCHANGED <<aside, session, held, sent, owed, last, outside>>

\* the read loop receives a buffer that Request::new refuses: the loop ends
ReceiveIllegal(buf) ==
    /\ pc = "receive"
    /\ mounted
    /\ ~Request_new(buf.buflen, buf.len)
    /\ pc' = "done"
    /\ rd' = 0
    /\ run_result' = Ok
    /\ wire' = NoWire
    /\ parse' = [NoParse EXCEPT !.st = "parsed", !.size = buf.buflen,
                                !.len = buf.len, !.result = "None"]
    /\ UNCHANGED <<setattr, legacy, dir, xattr, chan, attr, session, request, unique, held, sent,
                   owed, last, mounted, bg>>

\* the read of the channel fails with errno e
ReadError(e) ==
    /\ pc = "receive"
    /\ e \in ReadErrnos(mounted)
    /\ pc' = "failed"
    /\ rd' = e
    /\ wire' = NoWire
    /\ UNCHANGED <<aside, session, request, unique, held, sent, owed, last, outside>>

\* error arm that retries on EINTR only and leaves the loop on ENOENT, EAGAIN
MatchError_RetryEINTROnly ==
    /\ pc = "failed"
    /\ IF rd = EINTR
       THEN pc' = "receive" /\ rd' = 0 /\ run_result' = run_result
       ELSE IF rd \in {ENODEV, ENOENT, EAGAIN}
       THEN pc' = "done" /\ rd' = rd /\ run_result' = Ok
       ELSE pc' = "done" /\ rd' = rd /\ run_result' = Err(rd)
    /\ UNCHANGED <<aside, session, request, unique, held, sent, owed, wire, last,
                   mounted, bg>>

\* error arm that leaves the loop on every other errno as it does on ENODEV
MatchError_BreakOnError ==
    /\ pc = "failed"
    /\ IF rd \in {ENOENT, EINTR, EAGAIN}
       THEN pc' = "receive" /\ rd' = 0 /\ run_result' = run_result
       ELSE pc' = "done" /\ rd' = rd /\ run_result' = Ok
    /\ UNCHANGED <<aside, session, request, unique, held, sent, owed, wire, last,
                   mounted, bg>>

\* the error arm of the read loop: retry, leave the loop, or return the error
MatchError ==
    /\ pc = "failed"
    /\ IF rd \in {ENOENT, EINTR, EAGAIN}
       THEN pc' = "receive" /\ rd' = 0 /\ run_result' = run_result
       ELSE IF rd = ENODEV
       THEN pc' = "done" /\ rd' = rd /\ run_result' = Ok
       ELSE pc' = "done" /\ rd' = rd /\ run_result' = Err(rd)
    /\ UNCHANGED <<aside, session, request, unique, held, sent, owed, wire, last,
                   mounted, bg>>

\* the read loop dispatches the request; the implementer acts as fs says
Dispatch(fs) ==
    LET se == [proto_major |-> proto_major, proto_minor |-> proto_minor,
               initialized |-> initialized, destroyed |-> destroyed]
        r == Request_dispatch(request, se, fs)
    IN  /\ pc = "dispatch"
        /\ Cardinality(held \cup r.moved) <= MaxHeld
        /\ pc' = "return"
        /\ proto_major' = r.se.proto_major
        /\ proto_minor' = r.se.proto_minor
        /\ initialized' = r.se.initialized
        /\ destroyed' = r.se.destroyed
        /\ held' = held \cup r.moved
        /\ sent' = Count(r.msgs)
        /\ owed' = [owed EXCEPT ![request.unique] =
                      IF NoReplyOpcode(request.opcode) /\ initialized /\ ~destroyed
                      THEN 0 ELSE 1]
        /\ wire' = [by |-> "dispatch", of |-> request.unique,
                    fs |-> IF r.called = << >> THEN NoChoice ELSE fs,
                    msgs |-> r.msgs, err |-> ReplySender_send(chan)]
        /\ last' = [initialized |-> initialized, destroyed |-> destroyed,
                    proto_major |-> proto_major, proto_minor |-> proto_minor,
                    called |-> r.called, moved |-> r.moved # {}]
        /\ UNCHANGED <<aside, request, unique, rd, outside>>

\* dispatch returns: the Request goes out of scope and the loop reads again;
\* the kernel has taken the replies written so far
Return ==
    /\ pc = "return"
    /\ pc' = "receive"
    /\ request' = NoRequest
    /\ wire' = NoWire
    /\ last' = NoLast
    /\ UNCHANGED <<aside, session, unique, held, sent, owed, rd, outside>>

\* run has returned on the worker thread: the Session is dropped, its Channel
\* closes the fd and unmounts, ignoring the result; the thread ends
SessionDrop(u) ==
    /\ pc = "done"
    /\ u \in unmount(mounted)
    /\ pc' = "exited"
    /\ mounted' = Channel_drop(chan, mounted, u).mounted
    /\ chan' = Channel_drop(chan, mounted, u).chan
    /\ UNCHANGED <<setattr, legacy, dir, xattr, attr, parse, session, request, unique, held, sent, owed, wire, last,
                   rd, run_result, bg>>

\* a drop that joins the worker whatever unmount returned
BackgroundDrop_JoinAlways(u) ==
    /\ bg.st = "held"
    /\ u \in unmount(mounted)
    /\ mounted' = u.mounted
    /\ bg' = IF u.ok
             THEN [bg EXCEPT !.st = "joining", !.unmounted = ~u.mounted]
             ELSE [bg EXCEPT !.st = "joining", !.logged = TRUE,
                             !.unmounted = ~u.mounted]
    /\ UNCHANGED <<aside, session, pc, request, unique, held, sent, owed, wire, last,
                   rd, run_result>>

\* Drop for BackgroundSession, up to the result of unmount: on Ok the drop
\* goes on to join the worker, on Err it logs the error and returns
BackgroundDrop(u) ==
    /\ bg.st = "held"
    /\ u \in unmount(mounted)
    /\ mounted' = u.mounted
    /\ bg' = IF u.ok
             THEN [bg EXCEPT !.st = "joining", !.unmounted = ~u.mounted]
             ELSE [bg EXCEPT !.st = "dropped", !.logged = TRUE,
                             !.unmounted = ~u.mounted]
    /\ UNCHANGED <<aside, session, pc, request, unique, held, sent, owed, wire, last,
                   rd, run_result>>

\* a join that does not wait for the worker thread to end
BackgroundJoin_NoWait ==
    /\ bg.st = "joining"
    /\ bg' = [bg EXCEPT !.st = IF run_result = Ok THEN "dropped" ELSE "panicked",
                        !.joined = TRUE]
    /\ UNCHANGED <<aside, session, pc, request, unique, held, sent, owed, wire, last,
                   mounted, rd, run_result>>

\* Drop for BackgroundSession, the join: it returns once the worker thread
\* has ended, and unwraps the result of run
BackgroundJoin ==
    /\ bg.st = "joining"
    /\ pc = "exited"
    /\ bg' = [bg EXCEPT !.st = IF run_result = Ok THEN "dropped" ELSE "panicked",
                        !.joined = TRUE]
    /\ UNCHANGED <<aside, session, pc, request, unique, held, sent, owed, wire, last,
                   mounted, rd, run_result>>

\* the mountpoint is unmounted by someone else (umount, fusermount -u) while
\* the session runs or after it; not in the owner's step from Session::new to
\* spawn
ExternalUnmount ==
    /\ mounted
    /\ pc # "created"
    /\ mounted' = FALSE
    /\ UNCHANGED <<aside, session, pc, request, unique, held, sent, owed, wire, last,
                   rd, run_result, bg>>

\* a terminal method that leaves the Reply with the thread, sender in place
ThreadReply_KeepsReply(reply, fs) ==
    /\ pc \in {"receive", "done", "exited"}
    /\ reply \in held
    /\ fs.act \in {"ok", "error"}
    /\ LET h == Handler(reply, fs)
       IN  /\ held' = held
           /\ sent' = Count(h.msgs)
           /\ wire' = [by |-> "thread", of |-> reply.unique, fs |-> fs,
                       msgs |-> h.msgs, err |-> ReplySender_send(chan)]
    /\ UNCHANGED <<aside, session, pc, request, unique, owed, last, rd, outside>>

\* another thread calls a terminal method of a Reply it holds.  A send is one
\* call on the sender and touches no session field, so it is taken between
\* two steps of the loop, here before a read
ThreadReply(reply, fs) ==
    /\ pc \in {"receive", "done", "exited"}
    /\ reply \in held
    /\ fs.act \in {"ok", "error"}
    /\ LET h == Handler(reply, fs)
       IN  /\ held' = held \ {reply}
           /\ sent' = Count(h.msgs)
           /\ wire' = [by |-> "thread", of |-> reply.unique, fs |-> fs,
                       msgs |-> h.msgs, err |-> ReplySender_send(chan)]
    /\ UNCHANGED <<aside, session, pc, request, unique, owed, last, rd, outside>>

\* another thread drops a Reply it holds without calling a terminal method
ThreadDrop(reply) ==
    /\ pc \in {"receive", "done", "exited"}
    /\ reply \in held
    /\ held' = held \ {reply}
    /\ sent' = Count(ReplyRaw_drop(reply))
    /\ wire' = [by |-> "drop", of |-> reply.unique, fs |-> NoChoice,
                msgs |-> ReplyRaw_drop(reply), err |-> ReplySender_send(chan)]
    /\ UNCHANGED <<aside, session, pc, request, unique, owed, last, rd, outside>>

\* the steps of the loop thread after a read, of the threads that hold
\* Replies, and of the mount
Steps ==
    \/ \E buf \in IllegalBuffers : ReceiveIllegal(buf)
    \/ \E e \in Errnos \cup {EINTR, EAGAIN, ENODEV, EIO} : ReadError(e)
    \/ MatchError
    \/ \E fs \in FsChoices(request) : Dispatch(fs)
    \/ Return
    \/ \E reply \in held : \E fs \in ReplyChoices(reply.kind) : ThreadReply(reply, fs)
    \/ \E reply \in held : ThreadDrop(reply)
    \/ \E u \in unmount(mounted) : SessionDrop(u)
    \/ ExternalUnmount

\* a session run by its owner (Session::run called directly)
Next ==
    \/ \E req \in Requests(unique + 1) : Receive(req)
    \/ Steps

Spec == Init /\ [][Next]_vars

\* a session run by a worker thread, the owner holding the BackgroundSession
InitBg ==
    /\ proto_major = 0
    /\ proto_minor = 0
    /\ initialized = FALSE
    /\ destroyed = FALSE
    /\ pc = "receive"
    /\ request = NoRequest
    /\ unique = 0
    /\ held = {}
    /\ sent = [u \in Uniques |-> 0]
    /\ owed = [u \in Uniques |-> 0]
    /\ wire = NoWire
    /\ last = NoLast
    /\ mounted = TRUE
    /\ rd = 0
    /\ run_result = Running
    /\ bg = [st |-> "held", joined |-> FALSE, logged |-> FALSE,
             unmounted |-> FALSE]
    /\ dir = NoDir
    /\ xattr = NoXattr
    /\ chan = Channel_new
    /\ attr = NoAttr
    /\ parse = NoParse
    /\ setattr = NoSetattr
    /\ legacy = NoLegacy

NextBg ==
    \/ \E req \in BgRequests(unique + 1) : Receive(req)
    \/ Steps
    \/ \E u \in unmount(mounted) : BackgroundDrop(u)
    \/ BackgroundJoin

SpecBg == InitBg /\ [][NextBg]_vars

\* the steps of the worker thread that need nothing from outside: a failing
\* read, the error arm, a dispatch (handlers return), the return of dispatch,
\* the end of the thread
WorkerStep ==
    \/ \E e \in Errnos \cup {EINTR, EAGAIN, ENODEV, EIO} : ReadError(e)
    \/ MatchError
    \/ \E fs \in FsChoices(request) : Dispatch(fs)
    \/ Return
    \/ \E u \in unmount(mounted) : SessionDrop(u)

\* a background session whose worker thread is scheduled fairly and whose
\* owner, blocked in join, is woken once the worker has ended
FairSpecBg == SpecBg /\ WF_vars(WorkerStep) /\ WF_vars(BackgroundJoin)


\* a session whose filesystem overrides no method of trait Filesystem (NullFS)
NextNull ==
    \/ \E req \in NullRequests(unique + 1) : Receive(req)
    \/ \E buf \in IllegalBuffers : ReceiveIllegal(buf)
    \/ \E e \in Errnos \cup {EINTR, EAGAIN, ENODEV, EIO} : ReadError(e)
    \/ MatchError
    \/ Dispatch(Filesystem_default(MethodOf(request)))
    \/ Return
    \/ \E u \in unmount(mounted) : SessionDrop(u)
    \/ ExternalUnmount

SpecNull == Init /\ [][NextNull]_vars

(***************************************************************************)
(* Mounting and spawning: spawn_mount is Session::new, then Session::spawn.*)
(***************************************************************************)
\* Session::new: Channel::new mounts the filesystem and returns once the
\* mount call has; on failure no Session exists
Session_new(ok) ==
    /\ pc = "unborn"
    /\ pc' = IF ok THEN "created" ELSE "nomount"
    /\ mounted' = ok
    /\ chan' = IF ok THEN Channel_new ELSE NoChannel
    /\ UNCHANGED <<setattr, legacy, dir, xattr, attr, parse, session, request, unique, held, sent, owed, wire,
                   last, rd, run_result, bg>>

\* a spawn that starts the worker thread and leaves the mount to it
Session_spawn_MountsInWorker ==
    /\ pc = "unborn"
    /\ bg.st = "none"
    /\ bg' = [bg EXCEPT !.st = "held"]
    /\ UNCHANGED <<aside, session, pc, request, unique, held, sent, owed, wire,
                   last, mounted, rd, run_result>>

\* Session::spawn / BackgroundSession::new: the worker thread is started on
\* the Session, and the handle is returned
Session_spawn ==
    /\ pc = "created"
    /\ bg.st = "none"
    /\ pc' = "receive"
    /\ bg' = [bg EXCEPT !.st = "held"]
    /\ UNCHANGED <<aside, session, request, unique, held, sent, owed, wire, last,
                   mounted, rd, run_result>>

\* nothing exists yet: no Session, no mount, no handle
InitSpawn ==
    /\ proto_major = 0
    /\ proto_minor = 0
    /\ initialized = FALSE
    /\ destroyed = FALSE
    /\ pc = "unborn"
    /\ request = NoRequest
    /\ unique = 0
    /\ held = {}
    /\ sent = [u \in Uniques |-> 0]
    /\ owed = [u \in Uniques |-> 0]
    /\ wire = NoWire
    /\ last = NoLast
    /\ mounted = FALSE
    /\ rd = 0
    /\ run_result = Running
    /\ bg = [st |-> "none", joined |-> FALSE, logged |-> FALSE,
             unmounted |-> FALSE]
    /\ dir = NoDir
    /\ xattr = NoXattr
    /\ chan = NoChannel
    /\ attr = NoAttr
    /\ parse = NoParse
    /\ setattr = NoSetattr
    /\ legacy = NoLegacy

\* spawn_mount and the background session it returns
NextSpawn ==
    \/ \E ok \in BOOLEAN : Session_new(ok)
    \/ Session_spawn
    \/ NextBg

SpecSpawn == InitSpawn /\ [][NextSpawn]_vars

\* a handler is about to reply with a FileAttr
InitAttr ==
    /\ proto_major = 0
    /\ proto_minor = 0
    /\ initialized = FALSE
    /\ destroyed = FALSE
    /\ pc = "receive"
    /\ request = NoRequest
    /\ unique = 0
    /\ held = {}
    /\ sent = [u \in Uniques |-> 0]
    /\ owed = [u \in Uniques |-> 0]
    /\ wire = NoWire
    /\ last = NoLast
    /\ mounted = TRUE
    /\ rd = 0
    /\ run_result = Running
    /\ bg = [st |-> "none", joined |-> FALSE, logged |-> FALSE,
             unmounted |-> FALSE]
    /\ dir = NoDir
    /\ xattr = NoXattr
    /\ chan = Channel_new
    /\ attr \in {[st |-> "attr", kind |-> FileTypes[k], perm |-> p, mode |-> 0] :
                    k \in 1..Len(FileTypes), p \in Perms}
    /\ parse = NoParse
    /\ setattr = NoSetattr
    /\ legacy = NoLegacy

\* ReplyAttr::attr / ReplyEntry::entry: the FileAttr is converted
AttrReply ==
    /\ attr.st = "attr"
    /\ attr' = [attr EXCEPT !.st = "fuse_attr", !.mode = fuse_attr_from_attr(attr)]
    /\ UNCHANGED <<setattr, legacy, dir, xattr, chan, parse, session, pc, request, unique, held, sent,
                   owed, wire, last, rd, outside>>

NextAttr == AttrReply

SpecAttr == InitAttr /\ [][NextAttr]_vars

\* a SETATTR request is about to be dispatched
InitSetattr ==
    /\ proto_major = 7
    /\ proto_minor = 8
    /\ initialized = TRUE
    /\ destroyed = FALSE
    /\ pc = "receive"
    /\ request = NoRequest
    /\ unique = 0
    /\ held = {}
    /\ sent = [u \in Uniques |-> 0]
    /\ owed = [u \in Uniques |-> 0]
    /\ wire = NoWire
    /\ last = NoLast
    /\ mounted = TRUE
    /\ rd = 0
    /\ run_result = Running
    /\ bg = [st |-> "none", joined |-> FALSE, logged |-> FALSE,
             unmounted |-> FALSE]
    /\ dir = NoDir
    /\ xattr = NoXattr
    /\ chan = Channel_new
    /\ attr = NoAttr
    /\ parse = NoParse
    /\ legacy = NoLegacy
    /\ setattr \in {[NoSetattr EXCEPT !.st = "request", !.os = o, !.valid = v] :
                       o \in Targets, v \in SUBSET ValidBits}

\* the FUSE_SETATTR arm of Request::dispatch calls setattr
SetattrDispatch ==
    /\ setattr.st = "request"
    /\ setattr' = [setattr EXCEPT !.st = "called",
                      !.call = setattr_args(setattr.os, setattr.valid, SetattrIn)]
    /\ UNCHANGED <<legacy, dir, xattr, chan, attr, parse, session, pc, request,
                   unique, held, sent, owed, wire, last, rd, outside>>

NextSetattr == SetattrDispatch

SpecSetattr == InitSetattr /\ [][NextSetattr]_vars

\* a freshly mounted Session of src/src/session.rs has read an INIT request
InitLegacy ==
    /\ proto_major = 0
    /\ proto_minor = 0
    /\ initialized = FALSE
    /\ destroyed = FALSE
    /\ pc = "receive"
    /\ request = NoRequest
    /\ unique = 0
    /\ held = {}
    /\ sent = [u \in Uniques |-> 0]
    /\ owed = [u \in Uniques |-> 0]
    /\ wire = NoWire
    /\ last = NoLast
    /\ mounted = TRUE
    /\ rd = 0
    /\ run_result = Running
    /\ bg = [st |-> "none", joined |-> FALSE, logged |-> FALSE,
             unmounted |-> FALSE]
    /\ dir = NoDir
    /\ xattr = NoXattr
    /\ chan = Channel_new
    /\ attr = NoAttr
    /\ parse = NoParse
    /\ setattr = NoSetattr
    /\ legacy \in {[NoLegacy EXCEPT !.st = "request", !.unique = u, !.major = ma,
                                     !.minor = mi, !.max_readahead = ra,
                                     !.init_res = res] :
                      u \in Uniques, ma \in InitMajors, mi \in InitMinors,
                      ra \in InitReadahead, res \in {0} \cup Errnos}

\* Session::dispatch of src/src/session.rs on the INIT request
LegacyDispatch ==
    /\ legacy.st = "request"
    /\ legacy' = Session_dispatch(legacy)
    /\ UNCHANGED <<setattr, dir, xattr, chan, attr, parse, session, pc, request,
                   unique, held, sent, owed, wire, last, rd, outside>>

NextLegacy == LegacyDispatch

SpecLegacy == InitLegacy /\ [][NextLegacy]_vars

\* a buffer has been received, by a plain read or by a splice into the pipe
InitParse ==
    /\ proto_major = 0
    /\ proto_minor = 0
    /\ initialized = FALSE
    /\ destroyed = FALSE
    /\ pc = "receive"
    /\ request = NoRequest
    /\ unique = 0
    /\ held = {}
    /\ sent = [u \in Uniques |-> 0]
    /\ owed = [u \in Uniques |-> 0]
    /\ wire = NoWire
    /\ last = NoLast
    /\ mounted = TRUE
    /\ rd = 0
    /\ run_result = Running
    /\ bg = [st |-> "none", joined |-> FALSE, logged |-> FALSE,
             unmounted |-> FALSE]
    /\ dir = NoDir
    /\ xattr = NoXattr
    /\ chan = Channel_new
    /\ attr = NoAttr
    /\ parse \in {[NoParse EXCEPT !.st = "received", !.path = p, !.size = n,
                                   !.len = l, !.write = w, !.read_ok = r] :
                     p \in {"plain", "splice"}, n \in BufferSizes,
                     l \in HeaderLens, w \in BOOLEAN, r \in BOOLEAN}
    /\ setattr = NoSetattr
    /\ legacy = NoLegacy

\* request::request: Request::new on the buffer of a plain read
ParsePlain ==
    /\ parse.st = "received"
    /\ parse.path = "plain"
    /\ parse' = IF Request_new(parse.size, parse.len)
                THEN [parse EXCEPT !.st = "parsed", !.result = "Some",
                                   !.data = Request_new_data(parse.size)]
                ELSE [parse EXCEPT !.st = "parsed", !.result = "None"]
    /\ UNCHANGED <<setattr, legacy, dir, xattr, chan, attr, session, pc, request, unique, held,
                   sent, owed, wire, last, rd, outside>>

\* request::request_splice: Request::new_splice_write on what was spliced
ParseSplice ==
    /\ parse.st = "received"
    /\ parse.path = "splice"
    /\ parse' = IF Request_new_splice_write(parse.size, parse.len, parse.write,
                                            parse.read_ok)
                THEN [parse EXCEPT !.st = "parsed", !.result = "Some",
                                   !.data = parse.size - SizeOfInHeader]
                ELSE [parse EXCEPT !.st = "parsed", !.result = "None"]
    /\ UNCHANGED <<setattr, legacy, dir, xattr, chan, attr, session, pc, request, unique, held,
                   sent, owed, wire, last, rd, outside>>

NextParse ==
    \/ ParsePlain
    \/ ParseSplice

SpecParse == InitParse /\ [][NextParse]_vars

\* Session::run of a Session that SessionBuilder::mount returned: run takes
\* the Session by value and enters the loop; the Session is dropped when run
\* returns, on the Ok path and on the Err path of a failed read
Session_run ==
    /\ pc = "created"
    /\ pc' = "receive"
    /\ UNCHANGED <<aside, session, request, unique, held, sent, owed, wire, last,
                   rd, outside>>

\* SessionBuilder::run and mount: mount, then run
NextRun ==
    \/ \E ok \in BOOLEAN : Session_new(ok)
    \/ Session_run
    \/ Next

SpecRun == InitSpawn /\ [][NextRun]_vars


(***************************************************************************)
(* A readdir handler filling its ReplyDirectory.                           *)
(***************************************************************************)
\* the READDIR arm of dispatch hands the handler of listing ls a reply sized
\* to the size the kernel asked for
DirDispatch(size, ls) ==
    /\ dir.st = "none"
    /\ \E d \in ReplyDirectory_sized(ReplyDirectory_new(1), size) :
          dir' = [st |-> "filling", obj |-> d, ls |-> ls, rets |-> << >>,
                  msgs |-> << >>]
    /\ UNCHANGED <<session, pc, request, unique, held, sent, owed, wire, last,
                   rd, outside, xattr, chan, attr,
                   parse, setattr, legacy>>

\* the handler adds the next entry of its listing
DirAdd ==
    /\ dir.st = "filling"
    /\ Len(dir.rets) < MaxAdds
    /\ LET e == DirEntry(dir.ls, Len(dir.rets) + 1)
           r == ReplyDirectory_add(dir.obj, e.ino, e.offset, e.kind, e.name)
       IN  dir' = [dir EXCEPT !.obj = r.d, !.rets = Append(@, r.full)]
    /\ UNCHANGED <<session, pc, request, unique, held, sent, owed, wire, last,
                   rd, outside, xattr, chan, attr,
                   parse, setattr, legacy>>

\* the handler calls ok
DirOk ==
    /\ dir.st = "filling"
    /\ dir' = [dir EXCEPT !.st = "sent", !.msgs = ReplyDirectory_ok(dir.obj)]
    /\ UNCHANGED <<session, pc, request, unique, held, sent, owed, wire, last,
                   rd, outside, xattr, chan, attr,
                   parse, setattr, legacy>>

\* the handler calls error
DirError(err) ==
    /\ dir.st = "filling"
    /\ dir' = [dir EXCEPT !.st = "failed",
                          !.msgs = ReplyDirectory_error(dir.obj, err)]
    /\ UNCHANGED <<session, pc, request, unique, held, sent, owed, wire, last,
                   rd, outside, xattr, chan, attr,
                   parse, setattr, legacy>>

NextDir ==
    \/ \E size \in DirSizes : \E ls \in Listings : DirDispatch(size, ls)
    \/ DirAdd
    \/ DirOk
    \/ \E err \in Errnos : DirError(err)

SpecDir == Init /\ [][NextDir]_vars


(***************************************************************************)
(* A GETXATTR request and its answer.                                      *)
(***************************************************************************)
\* the FUSE_GETXATTR arm makes the request with its handler and calls getxattr
XattrDispatch(size) ==
    /\ xattr.st = "none"
    /\ xattr' = [xattr EXCEPT !.st = "asked", !.size = size]
    /\ UNCHANGED <<session, pc, request, unique, held, sent, owed, wire, last,
                   rd, outside, dir, chan, attr,
                   parse, setattr, legacy>>

\* the implementer replies with a result, which the handler turns into the reply
XattrReply(result) ==
    /\ xattr.st = "asked"
    /\ xattr' = [xattr EXCEPT !.st = "replied", !.result = result,
                              !.msgs = getxattr_handler(1, xattr.size, result)]
    /\ UNCHANGED <<session, pc, request, unique, held, sent, owed, wire, last,
                   rd, outside, dir, chan, attr,
                   parse, setattr, legacy>>

NextXattr ==
    \/ \E size \in 0..MaxXattr : XattrDispatch(size)
    \/ \E result \in XattrResults : XattrReply(result)

SpecXattr == Init /\ [][NextXattr]_vars


(***************************************************************************)
(* Properties of the reply objects.                                        *)
(***************************************************************************)
\* an error reply as it appears on the wire
ErrorReply(u, errno) ==
    [header |-> [len |-> 16, error |-> 0 - errno, unique |-> u], groups |-> << >>]

\* a dispatch has just ended: request, last and wire describe it
Dispatched == pc = "return"

\* the dispatch that just ended gave a handler a Reply
HandlerGotReply ==
    /\ Dispatched
    /\ last.called # << >>
    /\ last.called[1] \notin {"init", "destroy", "forget", "forget_multi"}

RECURSIVE Concat(_)
\* all bytes of the groups of a message, in the order written
Concat(groups) ==
    IF groups = << >> THEN << >> ELSE Head(groups) \o Concat(Tail(groups))

\* C1: every request that is owed a reply gets exactly one out-header with
\* its unique: never two, none while its Reply is still held by a thread, and
\* one as soon as its Reply is gone, whether by a terminal method called in
\* the handler or on another thread, or by a drop.
C1_ExactlyOneReply ==
    \A u \in Uniques :
        /\ sent[u] <= 1
        /\ IF u < unique \/ (u = unique /\ pc # "dispatch")
           THEN sent[u] + Cardinality({r \in held : r.unique = u}) = owed[u]
           ELSE sent[u] = 0

\* a Reply handed to another thread was answered there, once
C1_Witness ==
    /\ wire.by = "thread"
    /\ owed[wire.of] = 1
    /\ sent[wire.of] = 1

\* C2: a Reply destroyed with no terminal method called sends exactly one
\* reply, len 16, error -EIO, its request's unique; a Reply whose terminal
\* method was called sends nothing more when it is destroyed.
C2_DropAnswersEIO ==
    /\ wire.by = "drop" => wire.msgs = <<ErrorReply(wire.of, EIO)>>
    /\ (HandlerGotReply /\ wire.fs.act = "drop")
          => wire.msgs = <<ErrorReply(request.unique, EIO)>>
    /\ ((wire.by = "thread" \/ HandlerGotReply) /\ wire.fs.act \in {"ok", "error"})
          => Len(wire.msgs) = 1

\* a handler returned without using its Reply, and EIO went out
C2_Witness ==
    /\ HandlerGotReply
    /\ wire.fs.act = "drop"
    /\ wire.msgs = <<ErrorReply(request.unique, EIO)>>

\* C3: in every reply written, the header's len is 16 plus the number of
\* payload bytes written with it.
C3_LenCountsHeaderAndPayload ==
    \A i \in 1..Len(wire.msgs) :
        wire.msgs[i].header.len = 16 + Len(Concat(wire.msgs[i].groups))

\* a data reply with a payload of MaxData bytes
C3_Witness ==
    /\ wire.fs.act = "ok"
    /\ wire.fs.datalen = MaxData
    /\ Len(wire.msgs) = 1
    /\ wire.msgs[1].header.len = 16 + MaxData

\* C4: a reply produced by a success terminal method has error 0; a reply
\* produced by error(err) has error -err, len 16 and no payload.
C4_ErrorFieldOfTerminals ==
    (wire.by = "thread" \/ HandlerGotReply) =>
        /\ wire.fs.act = "ok" =>
              /\ Len(wire.msgs) >= 1
              /\ wire.msgs[1].header.error = 0
        /\ wire.fs.act = "error" =>
              /\ Len(wire.msgs) >= 1
              /\ wire.msgs[1] = ErrorReply(wire.of, wire.fs.errno)

\* a handler answered error(ENOENT)
C4_Witness ==
    /\ HandlerGotReply
    /\ wire.fs.act = "error"
    /\ wire.fs.errno = ENOENT
    /\ wire.msgs[1].header.error = 0 - ENOENT

(***************************************************************************)
(* Properties of the dispatcher.                                           *)
(***************************************************************************)
\* the dispatch that just ended sent one EIO error reply, called no method
RefusedEIO ==
    /\ wire.msgs = <<ErrorReply(request.unique, EIO)>>
    /\ last.called = << >>

\* C5, as stated: while the session is not initialized, every request whose
\* opcode is not INIT is answered EIO (len 16, its unique) and no implementer
\* method is invoked.
C5_AnyNonInitBeforeInitEIO ==
    (Dispatched /\ ~last.initialized /\ request.opcode # 26) => RefusedEIO

\* C5, amended: while the session is not initialized, every request whose
\* opcode is a member of the opcode enumeration other than INIT is answered
\* EIO (len 16, its unique) and no implementer method is invoked.
C5_KnownNonInitBeforeInitEIO ==
    (/\ Dispatched
     /\ ~last.initialized
     /\ request.opcode # 26
     /\ fuse_opcode_from_u32(request.opcode) # "None") => RefusedEIO

\* a GETATTR before INIT was refused
C5_Witness ==
    /\ Dispatched
    /\ ~last.initialized
    /\ request.opcode = 3
    /\ RefusedEIO

\* C6, as stated: once destroyed is true, every later request, whatever its
\* opcode, is answered with an EIO error reply.
C6_AnyAfterDestroyEIO ==
    (Dispatched /\ last.destroyed) => wire.msgs = <<ErrorReply(request.unique, EIO)>>

\* C7: a request whose opcode number from_u32 does not know is answered with
\* exactly one ENOSYS error reply carrying its unique; no implementer method
\* is invoked.
C7_UnknownOpcodeENOSYS ==
    (Dispatched /\ fuse_opcode_from_u32(request.opcode) = "None") =>
        /\ wire.msgs = <<ErrorReply(request.unique, ENOSYS)>>
        /\ last.called = << >>
        /\ sent[request.unique] = 1

\* the unassigned number 7 arrived before INIT and was answered ENOSYS
C7_Witness ==
    /\ Dispatched
    /\ request.opcode = 7
    /\ ~last.initialized
    /\ wire.msgs = <<ErrorReply(request.unique, ENOSYS)>>

\* the ABI version of the request is below 7.6
BelowAbi76 == request.major < 7 \/ (request.major = 7 /\ request.minor < 6)

\* C8: an INIT request with an ABI version below 7.6 is answered EPROTO
\* (len 16); init is not called and initialized is left as it was, so it
\* remains false.
C8_OldAbiEPROTO ==
    (Dispatched /\ request.opcode = 26 /\ BelowAbi76) =>
        /\ wire.msgs = <<ErrorReply(request.unique, EPROTO)>>
        /\ last.called = << >>
        /\ initialized = last.initialized

\* INIT 7.5 on a fresh session
C8_Witness ==
    /\ Dispatched
    /\ request.opcode = 26
    /\ request.major = 7
    /\ request.minor = 5
    /\ ~last.initialized
    /\ ~initialized
    /\ wire.msgs = <<ErrorReply(request.unique, EPROTO)>>

RECURSIVE UInt(_, _, _)
\* the little-endian unsigned integer in the w bytes of b after offset off
UInt(b, off, w) ==
    IF w = 0 THEN 0 ELSE b[off + 1] + 256 * UInt(b, off + 1, w - 1)

\* the bits set in a flags word
Bits(n) == {i \in 0..30 : (n \div (2 ^ i)) % 2 = 1}

\* C9: for an INIT request of version 7.6 or later whose init hook succeeds,
\* the reply carries major 7, minor 26, the kernel's max_readahead, as flags
\* exactly the bits that are both in the kernel's flags and in INIT_FLAGS,
\* max_write = MAX_WRITE_SIZE and time_gran = 1, and the session is
\* initialized.
C9_InitReply ==
    (/\ Dispatched
     /\ request.opcode = 26
     /\ ~BelowAbi76
     /\ last.called = <<"init">>
     /\ wire.fs.init_res = 0) =>
        /\ Len(wire.msgs) = 1
        /\ wire.msgs[1].header.error = 0
        /\ wire.msgs[1].header.unique = request.unique
        /\ Len(wire.msgs[1].groups) = 1
        /\ LET out == wire.msgs[1].groups[1]
           IN  /\ Len(out) = 64
               /\ UInt(out, 0, 4) = FUSE_KERNEL_VERSION
               /\ UInt(out, 4, 4) = FUSE_KERNEL_MINOR_VERSION
               /\ UInt(out, 8, 4) = request.max_readahead
               /\ Bits(UInt(out, 12, 4)) = Bits(request.flags) \cap Bits(INIT_FLAGS)
               /\ UInt(out, 20, 4) = MAX_WRITE_SIZE
               /\ UInt(out, 24, 4) = 1
        /\ initialized

\* the kernel offered bits in and outside INIT_FLAGS and a readahead size
C9_Witness ==
    /\ Dispatched
    /\ request.opcode = 26
    /\ last.called = <<"init">>
    /\ wire.fs.init_res = 0
    /\ request.max_readahead = 131072
    /\ Bits(request.flags) \ Bits(INIT_FLAGS) # {}
    /\ Bits(request.flags) \cap Bits(INIT_FLAGS) # {}
    /\ ~last.initialized
    /\ initialized

\* the dispatch that just ended was an INIT whose init hook returned Err
InitHookFailed ==
    /\ Dispatched
    /\ request.opcode = 26
    /\ last.called = <<"init">>
    /\ wire.fs.init_res # 0

\* the session is not initialized and an init hook has failed before: only
\* the INIT arm writes proto_major, and past the version check it leaves
\* initialized false only when the hook fails
AfterFailedInit == Dispatched /\ ~last.initialized /\ last.proto_major >= 7

\* C10, as stated: when the init hook returns Err(errno), the reply is an
\* error reply with that errno and the session stays uninitialized, so later
\* non-INIT requests are still answered EIO.
C10_FailedInitThenAnyEIO ==
    /\ InitHookFailed =>
          /\ wire.msgs = <<ErrorReply(request.unique, wire.fs.init_res)>>
          /\ initialized = last.initialized
    /\ (AfterFailedInit /\ request.opcode # 26) => RefusedEIO

\* C10, amended: when the init hook returns Err(errno), the reply is an error
\* reply with that errno and the session stays uninitialized, so later
\* requests with an opcode of the enumeration other than INIT are still
\* answered EIO.
C10_FailedInitThenKnownEIO ==
    /\ InitHookFailed =>
          /\ wire.msgs = <<ErrorReply(request.unique, wire.fs.init_res)>>
          /\ initialized = last.initialized
    /\ (/\ AfterFailedInit
        /\ request.opcode # 26
        /\ fuse_opcode_from_u32(request.opcode) # "None") => RefusedEIO

\* a LOOKUP after an INIT 7.6 whose hook failed
C10_Witness ==
    /\ AfterFailedInit
    /\ last.proto_major = 7
    /\ last.proto_minor = 6
    /\ request.opcode = 1
    /\ RefusedEIO

\* an empty success reply as it appears on the wire
EmptyOk(u) ==
    [header |-> [len |-> 16, error |-> 0, unique |-> u], groups |-> << >>]

\* C11: a DESTROY received while the session is initialized calls destroy,
\* sets destroyed and sends exactly one empty success reply (len 16, error
\* 0); a DESTROY received before INIT calls nothing, leaves destroyed false
\* and is answered EIO.
C11_Destroy ==
    (Dispatched /\ request.opcode = 38) =>
        IF last.initialized
        THEN /\ last.called = <<"destroy">>
             /\ destroyed
             /\ wire.msgs = <<EmptyOk(request.unique)>>
             /\ sent[request.unique] = 1
        ELSE /\ RefusedEIO
             /\ ~destroyed

\* the first DESTROY of an initialized session
C11_Witness ==
    /\ Dispatched
    /\ request.opcode = 38
    /\ last.initialized
    /\ ~last.destroyed
    /\ destroyed
    /\ wire.msgs = <<EmptyOk(request.unique)>>

(***************************************************************************)
(* Properties of the read loop.                                            *)
(***************************************************************************)
\* the errnos on which the loop reads again
Transient == {ENOENT, EINTR, EAGAIN}

\* the loop thread takes its step after a failed read
AfterFailedRead == pc = "failed" /\ pc' # pc

\* the loop thread leaves the loop
LoopExits == pc \notin {"done", "exited"} /\ pc' = "done"

\* a failed read with a transient errno is retried: nothing is dispatched or
\* sent, no session field changes and run does not return
RetriesTransient ==
    (AfterFailedRead /\ rd \in Transient) =>
        /\ pc' = "receive"
        /\ run_result' = Running
        /\ UNCHANGED <<session, unique, held, sent, owed>>

\* C12, as stated: the read loop exits exactly when a read of the channel
\* returns ENODEV; a read failing with ENOENT, EINTR or EAGAIN is retried
\* without dispatching anything and does not end the loop.
C12_ExitsExactlyOnENODEV ==
    [][/\ (AfterFailedRead /\ rd = ENODEV) => pc' = "done"
       /\ LoopExits => (pc = "failed" /\ rd = ENODEV)
       /\ RetriesTransient]_vars

\* C12, amended: the read loop exits when a read returns ENODEV, and
\* otherwise only when a read fails with an errno that is none of ENOENT,
\* EINTR, EAGAIN (run returns Err) or when the buffer read is refused by
\* Request::new (run returns Ok); a read failing with ENOENT, EINTR or EAGAIN
\* is retried without dispatching anything and does not end the loop.
C12_ExitsOnENODEVErrorOrIllegal ==
    [][/\ (AfterFailedRead /\ rd = ENODEV) => pc' = "done"
       /\ LoopExits =>
             \/ pc = "failed" /\ rd = ENODEV
             \/ pc = "failed" /\ rd \notin Transient /\ run_result' = Err(rd)
             \/ pc = "receive" /\ rd' = 0 /\ run_result' = Ok
       /\ RetriesTransient]_vars

\* the loop has read a request, then a read failed with EAGAIN
C12_Witness ==
    /\ pc = "failed"
    /\ rd = EAGAIN
    /\ unique >= 1
    /\ run_result = Running

\* C13: when a read fails with an errno other than ENOENT, EINTR, EAGAIN and
\* ENODEV, the loop ends and run returns Err with that errno; the exit on
\* ENODEV returns Ok(()).
C13_FatalReadErrorReturned ==
    /\ [][(AfterFailedRead /\ rd \notin Transient) => pc' = "done"]_vars
    /\ [](pc \in {"done", "exited"} =>
             /\ rd = ENODEV => run_result = Ok
             /\ rd \notin {0, ENODEV} => run_result = Err(rd))

\* run returned Err(EIO) after a read failed with EIO
C13_Witness ==
    /\ pc = "done"
    /\ rd = EIO
    /\ run_result = Err(EIO)

(***************************************************************************)
(* Properties of the background session handle.                            *)
(***************************************************************************)

\* the drop of the handle is over: it returned, or its unwrap panicked
DropOver == bg.st \in {"dropped", "panicked"}

UnmountedWhileRunning ==
    /\ ~mounted
    /\ run_result = Running
    /\ pc = "failed" => rd \in Transient \cup {ENODEV}

\* the next read of the loop, once the filesystem is unmounted
ReadAfterUnmount == pc = "receive" /\ ~mounted /\ pc' # pc

PaddedLen(n) == CHOOSE k \in (24 + n)..(24 + n + 7) : k % 8 = 0

\* the padded length of entry i of the listing being added
EntryLen(i) == PaddedLen(Len(DirEntry(dir.ls, i).name))

RECURSIVE AcceptedLen(_)
\* the padded lengths of the entries among the first k for which add
\* returned false
AcceptedLen(k) ==
    IF k = 0 THEN 0
    ELSE AcceptedLen(k - 1) + (IF dir.rets[k] THEN 0 ELSE EntryLen(k))

\* C17 as stated: the buffer never grows past the size the reply was sized
\* to, the size the kernel asked for; add returns true exactly when the entry
\* would take the buffer past that size, and then leaves the buffer unchanged
C17_AddKeepsDeclaredSize ==
    dir.st # "none" =>
        /\ Len(dir.obj.data) <= dir.obj.size
        /\ Len(dir.obj.data) = AcceptedLen(Len(dir.rets))
        /\ \A i \in 1..Len(dir.rets) :
              dir.rets[i] = (AcceptedLen(i - 1) + EntryLen(i) > dir.obj.size)

RECURSIVE ListingLen(_)
\* the padded lengths of the first n entries of the listing being added
ListingLen(n) == IF n = 0 THEN 0 ELSE ListingLen(n - 1) + EntryLen(n)

\* the first n entries of the listing fill the capacity of the buffer exactly
ExactFit(n) == ListingLen(n) = dir.obj.capacity

RECURSIVE FromLE(_)
\* the unsigned integer whose little-endian bytes are given
FromLE(bytes) ==
    IF bytes = << >> THEN 0 ELSE Head(bytes) + 256 * FromLE(Tail(bytes))

RECURSIVE ParseDirents(_, _)
\* the entries read from buf with the layout of fuse_dirent, from the byte
\* after the first at bytes on; an entry that does not lie within buf ends
\* the parse with a record that says so
ParseDirents(buf, at) ==
    IF at >= Len(buf) THEN << >>
    ELSE IF at + 24 > Len(buf) THEN <<[at |-> at, whole |-> FALSE]>>
    ELSE LET namelen == FromLE(SubSeq(buf, at + 17, at + 20))
         IN  IF at + PaddedLen(namelen) > Len(buf)
             THEN <<[at |-> at, whole |-> FALSE]>>
             ELSE <<[at |-> at, whole |-> TRUE,
                     ino |-> FromLE(SubSeq(buf, at + 1, at + 8)),
                     off |-> FromLE(SubSeq(buf, at + 9, at + 16)),
                     type |-> FromLE(SubSeq(buf, at + 21, at + 24)),
                     name |-> SubSeq(buf, at + 25, at + 24 + namelen),
                     pad |-> SubSeq(buf, at + 25 + namelen,
                                    at + PaddedLen(namelen))]>>
                     \o ParseDirents(buf, at + PaddedLen(namelen))

\* the type field of a directory entry of each file type: the file type bits
\* of the mode, shifted down by 12
DirentType(kind) ==
    CASE kind = "NamedPipe" -> 1
      [] kind = "CharDevice" -> 2
      [] kind = "Directory" -> 4
      [] kind = "BlockDevice" -> 6
      [] kind = "RegularFile" -> 8
      [] kind = "Symlink" -> 10

\* the indices of the add calls that returned false, in call order
AcceptedAdds ==
    SelectSeq([i \in 1..Len(dir.rets) |-> i], LAMBDA i : ~dir.rets[i])

\* C19: the buffer is the accepted entries in call order, each parsed back
\* with the fuse_dirent layout to its ino, off, type and name, each starting
\* at a multiple of 8, taking 24 + namelen rounded up to 8 bytes and padded
\* with zeros; ok sends the buffer as the one payload of one reply
C19_BufferIsPackedEntries ==
    dir.st # "none" =>
        LET parsed == ParseDirents(dir.obj.data, 0)
        IN  /\ Len(parsed) = Len(AcceptedAdds)
            /\ Len(dir.obj.data) = AcceptedLen(Len(dir.rets))
            /\ \A j \in 1..Len(parsed) :
                  LET e == DirEntry(dir.ls, AcceptedAdds[j])
                      p == parsed[j]
                  IN  /\ p.whole
                      /\ p.at % 8 = 0
                      /\ p.ino = e.ino
                      /\ p.off = e.offset
                      /\ p.type = DirentType(e.kind)
                      /\ p.name = e.name
                      /\ p.pad = [i \in 1..Len(p.pad) |-> 0]
            /\ dir.st = "sent" =>
                  dir.msgs = <<[header |-> [len |-> 16 + Len(dir.obj.data),
                                            error |-> 0,
                                            unique |-> dir.obj.reply.unique],
                                groups |-> <<dir.obj.data>>]>>

\* the reply of test reply_directory: "hello" and "world.rs" added, ok
\* called, 0x50 bytes sent
C19_Witness ==
    /\ dir.st = "sent"
    /\ dir.ls = "test"
    /\ dir.rets = <<FALSE, FALSE>>
    /\ Len(dir.msgs) = 1
    /\ dir.msgs[1].header.len = 80
    /\ dir.msgs[1].groups[1] =
          <<187, 170, 0, 0, 0, 0, 0, 0, 1, 0, 0, 0, 0, 0, 0, 0,
            5, 0, 0, 0, 4, 0, 0, 0, 104, 101, 108, 108, 111, 0, 0, 0,
            221, 204, 0, 0, 0, 0, 0, 0, 2, 0, 0, 0, 0, 0, 0, 0,
            8, 0, 0, 0, 8, 0, 0, 0, 119, 111, 114, 108, 100, 46, 114, 115>>

(***************************************************************************)
(* Properties of the order of dispatch.                                    *)
(***************************************************************************)

\* C20: the loop reads request n + 1 only when it is back at its read, after
\* the dispatch of request n has returned; each dispatch is that of the
\* request delivered last and calls at most one handler
C20_DispatchInDeliveryOrder ==
    /\ [][unique' # unique =>
            /\ pc = "receive"
            /\ pc' = "dispatch"
            /\ unique' = unique + 1
            /\ request'.unique = unique']_vars
    /\ [][(pc = "dispatch" /\ pc' # pc) =>
            /\ pc' = "return"
            /\ request.unique = unique
            /\ unique' = unique
            /\ Len(last'.called) <= 1]_vars
    /\ [](pc \in {"dispatch", "return"} => request.unique = unique)

\* the handler of the second request has run, after that of the first
C20_Witness ==
    /\ pc = "return"
    /\ unique = 2
    /\ request.unique = 2
    /\ Len(last.called) = 1
    /\ owed[1] = 1

(***************************************************************************)
(* Properties of replies made off the loop thread.                         *)
(***************************************************************************)

\* a reply is written by a thread other than the loop's
SentOffLoop == sent' # sent /\ pc' = pc

\* C21: while a Reply is held by another thread the loop can read the next
\* request; a reply written off the loop thread is that of one held Reply,
\* which is gone afterwards, and is one message, header and payload together,
\* carrying that Reply's unique, the first and only one with that unique
C21_DeferredReply ==
    /\ [](  (held # {} /\ pc = "receive" /\ mounted /\ unique < MaxRequests)
            => ENABLED (\E req \in Requests(unique + 1) : Receive(req)))
    /\ [][SentOffLoop =>
            \E r \in held :
                /\ held' = held \ {r}
                /\ sent[r.unique] = 0
                /\ sent' = [sent EXCEPT ![r.unique] = 1]
                /\ Len(wire'.msgs) = 1
                /\ wire'.msgs[1].header.unique = r.unique
                /\ wire'.msgs[1].header.len =
                       16 + Len(Concat(wire'.msgs[1].groups))]_vars

\* after INIT, the Reply of request 2 was moved to a thread, request 3 was
\* read and answered meanwhile, and the thread then answered request 2
C21_Witness ==
    /\ wire.by = "thread"
    /\ wire.of = 2
    /\ wire.fs.act = "ok"
    /\ unique = 3
    /\ sent[2] = 1
    /\ sent[3] = 1

(***************************************************************************)
(* Properties of a filesystem that overrides no method.                    *)
(***************************************************************************)

\* the dispatch that just ended called method m
Called(m) == Dispatched /\ last.called = <<m>>

\* one reply with error 0 and n bytes of payload went out for the request
SuccessReply(n) ==
    /\ Len(wire.msgs) = 1
    /\ wire.msgs[1].header =
           [len |-> 16 + n, error |-> 0, unique |-> request.unique]
    /\ Len(Concat(wire.msgs[1].groups)) = n

\* C22 as stated: every default method that has a Reply answers ENOSYS,
\* except open, opendir, access, release, releasedir, init and destroy
C22_DefaultsENOSYSButListed ==
    \A m \in FilesystemMethods \ {"open", "opendir", "access", "release",
                                  "releasedir", "init", "destroy", "forget"} :
        Called(m) => wire.msgs = <<ErrorReply(request.unique, ENOSYS)>>

\* C22: every default method that has a Reply answers ENOSYS, access
\* included, except open and opendir (fuse_open_out with fh 0 and flags 0),
\* statfs (a fuse_statfs_out), release and releasedir (empty ok); init lets
\* the INIT reply go out and destroy the DESTROY reply, forget sends nothing
C22_DefaultsENOSYSButListedAndStatfs ==
    \A m \in FilesystemMethods :
        Called(m) =>
            CASE m \in {"open", "opendir"} ->
                   /\ SuccessReply(16)
                   /\ Concat(wire.msgs[1].groups) = Zeros(16)
              [] m = "statfs" -> SuccessReply(80)
              [] m \in {"release", "releasedir"} -> SuccessReply(0)
              [] m = "init" -> SuccessReply(64) /\ initialized
              [] m = "destroy" -> SuccessReply(0) /\ destroyed
              [] m = "forget" -> wire.msgs = << >>
              [] OTHER -> wire.msgs = <<ErrorReply(request.unique, ENOSYS)>>

\* a lookup on a filesystem that overrides nothing was answered ENOSYS
C22_Witness ==
    /\ Called("lookup")
    /\ wire.msgs = <<ErrorReply(request.unique, ENOSYS)>>

(***************************************************************************)
(* Properties of GETXATTR.                                                 *)
(***************************************************************************)

\* C23: when the handler of a GETXATTR returns a value: for size 0 the reply
\* is the 8 bytes of a fuse_getxattr_out holding the value's length; for a
\* size the value is longer than, an ERANGE error without payload; else the
\* value's bytes
C23_GetxattrReply ==
    (xattr.st = "replied" /\ xattr.result.ok) =>
        LET value == xattr.result.value
        IN  /\ Len(xattr.msgs) = 1
            /\ xattr.msgs[1].header.unique = 1
            /\ IF xattr.size = 0
               THEN /\ xattr.msgs[1].header = [len |-> 24, error |-> 0, unique |-> 1]
                    /\ Len(Concat(xattr.msgs[1].groups)) = 8
                    /\ FromLE(SubSeq(Concat(xattr.msgs[1].groups), 1, 4)) = Len(value)
               ELSE IF Len(value) > xattr.size
               THEN xattr.msgs[1] = ErrorReply(1, ERANGE)
               ELSE /\ xattr.msgs[1].header.error = 0
                    /\ xattr.msgs[1].header.len = 16 + Len(value)
                    /\ Concat(xattr.msgs[1].groups) = value

\* a value one byte longer than the size asked for was refused with ERANGE
C23_Witness ==
    /\ xattr.st = "replied"
    /\ xattr.result.ok
    /\ xattr.size > 0
    /\ Len(xattr.result.value) = xattr.size + 1
    /\ xattr.msgs = <<ErrorReply(1, ERANGE)>>

(***************************************************************************)
(* Properties of drops.                                                    *)
(***************************************************************************)

\* C24 as stated: no error met while the handle is dropped makes the drop
\* panic; a failed unmount was logged, and so was a run that ended with an
\* error once the worker is joined
C24_DropErrorsLoggedNeverPanic ==
    /\ bg.st # "panicked"
    /\ (bg.st = "dropped" /\ bg.joined /\ run_result.tag = "Err") => bg.logged

(***************************************************************************)
(* Properties of spawn_mount.                                              *)
(***************************************************************************)

\* the handle is returned to the caller
HandleReturned == bg.st = "none" /\ bg'.st = "held"

\* C25: when the handle is returned the mount has already been made, by
\* Session::new before the worker thread was started, and the worker is at
\* its read; no handle exists before the mount or after a failed one
C25_MountedWhenSpawnReturns ==
    /\ [][HandleReturned =>
            /\ pc = "created"
            /\ mounted
            /\ mounted'
            /\ pc' = "receive"]_vars
    /\ [](pc \in {"unborn", "nomount"} => (bg.st = "none" /\ ~mounted))
    /\ [](pc = "created" => (bg.st = "none" /\ mounted))

\* a request is dispatched to the implementer right after spawn returned
C25_Witness ==
    /\ bg.st = "held"
    /\ mounted
    /\ pc = "dispatch"
    /\ unique = 1

(***************************************************************************)
(* Properties of the init method.                                          *)
(***************************************************************************)

\* init has been called by an earlier dispatch: the FUSE_INIT arm stores the
\* kernel's ABI version, a major of 7 or more, right before it calls init
InitCalledBefore == last.proto_major # 0

\* C26: init is called once, before any other filesystem method: no other
\* method is called by a dispatch that no init call preceded, and init is
\* not called by a dispatch that an init call preceded
C26_InitOnceAndFirst ==
    Dispatched =>
        /\ (last.called # << >> /\ last.called # <<"init">>) => InitCalledBefore
        /\ last.called = <<"init">> => ~InitCalledBefore

(***************************************************************************)
(* Properties of the return of run.                                        *)
(***************************************************************************)

\* SessionBuilder::run has returned to its caller: the mount failed, or run
\* returned and the Session it owned was dropped
Returned == pc \in {"nomount", "exited"}

\* the drop of the Channel has called unmount
UnmountAttempted == \E i \in 1..Len(chan.calls) : chan.calls[i] = "umount"

C28_ModeNibbleIsType ==
    attr.st = "fuse_attr" => attr.mode \div 4096 = DirentType(attr.kind)

\* C28, amended: for every FileType and every perm within the twelve
\* permission bits, the mode shifted right by 12 is the file-type nibble of
\* the type, which is the type code add writes into directory entries, and
\* the low twelve bits of the mode are perm
C28_ModeNibbleIsTypeForPermBits ==
    (attr.st = "fuse_attr" /\ attr.perm < 4096) =>
        /\ attr.mode \div 4096 = DirentType(attr.kind)
        /\ attr.mode \div 4096 = mode_from_kind_and_perm(attr.kind, 0) \div 4096
        /\ attr.mode % 4096 = attr.perm

\* a directory with all twelve permission bits set
C28_Witness ==
    /\ attr.st = "fuse_attr"
    /\ attr.kind = "Directory"
    /\ attr.perm = 4095
    /\ attr.mode = 20479

(***************************************************************************)
(* Properties of the drop of a Channel.                                    *)
(***************************************************************************)

\* the Session, and with it its Channel, is dropped
ChannelDropped == pc # "exited" /\ pc' = "exited"

\* C29: the drop of a Channel, which the drop of its Session brings about,
\* closes the fd first and calls unmount afterwards, and calls it always:
\* a dropped Session has made exactly these two calls in this order, and no
\* call is made before the drop
C29_DropClosesThenUnmounts ==
    /\ [][ChannelDropped =>
            /\ chan.fd = "open"
            /\ chan'.fd = "closed"
            /\ chan'.calls = chan.calls \o <<"close", "umount">>]_vars
    /\ [](pc = "exited" <=> chan.calls = <<"close", "umount">>)
    /\ [](pc # "exited" => (chan.calls = << >> /\ chan.fd = "open"))

\* run returned Ok after an unmount from outside, and the Session was dropped
C29_Witness ==
    /\ pc = "exited"
    /\ run_result = Ok
    /\ ~mounted
    /\ chan = [fd |-> "closed", calls |-> <<"close", "umount">>]

(***************************************************************************)
(* Properties of parsing a received buffer.                                *)
(***************************************************************************)

\* C30: a buffer becomes a Request only if header.len equals the number of
\* bytes received, by Request::new and by Request::new_splice_write alike;
\* otherwise parsing gives None; so the payload of every Request is
\* header.len - 40 bytes
C30_RequestOnlyIfLenMatches ==
    parse.st = "parsed" =>
        /\ parse.result = "Some" => parse.size = parse.len
        /\ parse.size # parse.len => parse.result = "None"
        /\ parse.result = "Some" => parse.data = parse.len - SizeOfInHeader

(***************************************************************************)
(* Properties of short reads.                                              *)
(***************************************************************************)

\* the loop has ended on a read of fewer bytes than a fuse_in_header
EndedOnShortRead ==
    /\ pc \in {"done", "exited"}
    /\ parse.st = "parsed"
    /\ parse.result = "None"
    /\ parse.size < SizeOfInHeader

\* C31: a read that delivers fewer bytes than a fuse_in_header is treated as
\* an EIO error: the run it ends returns Err(EIO)
C31_ShortReadIsEIO == EndedOnShortRead => run_result = Err(EIO)

(***************************************************************************)
(* Properties of the length of the INIT reply.                             *)
(***************************************************************************)

\* the dispatch that just ended was an INIT that init accepted
InitAnswered ==
    /\ Dispatched
    /\ request.opcode = 26
    /\ last.called = <<"init">>
    /\ wire.fs.init_res = 0
    /\ Len(wire.msgs) = 1
    /\ wire.msgs[1].header.error = 0

\* C32: the reply to an INIT that announces a minor version below 23 is the
\* fuse_init_out without time_gran and reserved, 24 bytes after an out-header
\* whose len is 40; for a minor of 23 or more it is the full record of 64
\* bytes, len 80
C32_InitReplyShorterBelow23 ==
    InitAnswered =>
        LET m == wire.msgs[1]
        IN  IF request.minor < 23
            THEN m.header.len = SizeOfOutHeader + 24 /\ Len(Concat(m.groups)) = 24
            ELSE m.header.len = SizeOfOutHeader + 64 /\ Len(Concat(m.groups)) = 64

(***************************************************************************)
(* Properties of the SETATTR arguments.                                    *)
(***************************************************************************)

\* C33: setattr is given mode, uid, gid, size and fh as Some(the request's
\* value) exactly when the FATTR_ bit is set in valid, as None otherwise;
\* atime and mtime are Omit when none of their bits is set; crtime, chgtime,
\* bkuptime and flags are Some only if their bit is set, and None on every
\* target but macOS
C33_SetattrOptionsFollowValid ==
    setattr.st = "called" =>
        LET c == setattr.call
            v == setattr.valid
            a == SetattrIn
        IN  /\ c.mode = IF FATTR_MODE \in v THEN Some(a.mode) ELSE None
            /\ c.uid = IF FATTR_UID \in v THEN Some(a.uid) ELSE None
            /\ c.gid = IF FATTR_GID \in v THEN Some(a.gid) ELSE None
            /\ c.size = IF FATTR_SIZE \in v THEN Some(a.size) ELSE None
            /\ c.fh = IF FATTR_FH \in v THEN Some(a.fh) ELSE None
            /\ v \cap {FATTR_ATIME, FATTR_ATIME_NOW} = {} => c.atime = Omit
            /\ v \cap {FATTR_MTIME, FATTR_MTIME_NOW} = {} => c.mtime = Omit
            /\ c.crtime.some => (FATTR_CRTIME \in v /\ c.crtime = Some(a.crtime))
            /\ c.chgtime.some => (FATTR_CHGTIME \in v /\ c.chgtime = Some(a.chgtime))
            /\ c.bkuptime.some =>
                  (FATTR_BKUPTIME \in v /\ c.bkuptime = Some(a.bkuptime))
            /\ c.flags.some => (FATTR_FLAGS \in v /\ c.flags = Some(a.flags))
            /\ setattr.os # "macos" =>
                  (/\ c.crtime = None /\ c.chgtime = None
                   /\ c.bkuptime = None /\ c.flags = None)

\* a chmod through an open file that also sets atime to now, on Linux
C33_Witness ==
    /\ setattr.st = "called"
    /\ setattr.os = "linux"
    /\ setattr.valid = {FATTR_MODE, FATTR_FH, FATTR_ATIME_NOW}
    /\ setattr.call.mode = Some(420)
    /\ setattr.call.fh = Some(7)
    /\ setattr.call.uid = None
    /\ setattr.call.atime = Now
    /\ setattr.call.mtime = Omit

(***************************************************************************)
(* Properties of the operations the dispatcher answers itself.             *)
(***************************************************************************)

\* the request is one the dispatcher has no handler for: INTERRUPT, POLL,
\* NOTIFY_REPLY, CUSE_INIT, or an IOCTL with FUSE_IOCTL_UNRESTRICTED set
Unhandled(req) ==
    \/ req.opcode \in {36, 40, 41, 4096}
    \/ req.opcode = 39 /\ BitAnd(req.ioctl_flags, FUSE_IOCTL_UNRESTRICTED) > 0

\* C34: in the initialized, not destroyed state, an INTERRUPT, POLL,
\* NOTIFY_REPLY or CUSE_INIT request and an unrestricted IOCTL are answered
\* with one ENOSYS error reply, and no implementer method is called
C34_UnhandledENOSYS ==
    (Dispatched /\ last.initialized /\ ~last.destroyed /\ Unhandled(request)) =>
        /\ wire.msgs = <<ErrorReply(request.unique, ENOSYS)>>
        /\ last.called = << >>
        /\ ~last.moved
        /\ sent[request.unique] = 1

\* an unrestricted IOCTL on an initialized session was answered ENOSYS
C34_Witness ==
    /\ Dispatched
    /\ last.initialized
    /\ ~last.destroyed
    /\ request.opcode = 39
    /\ request.ioctl_flags = FUSE_IOCTL_UNRESTRICTED
    /\ wire.msgs = <<ErrorReply(request.unique, ENOSYS)>>
    /\ last.called = << >>

(***************************************************************************)
(* Properties of FORGET.                                                   *)
(***************************************************************************)

\* the loop goes from the end of a dispatch to its next read
LoopReadsOn == pc = "return" /\ pc' # pc

\* C35: a FORGET or BATCH_FORGET dispatched in the initialized, not destroyed
\* state calls forget, respectively forget_multi, and sends nothing, no reply
\* is owed for it or ever sent, and the loop goes on to its next read
C35_ForgetCallsAndSendsNothing ==
    /\ []((/\ Dispatched
           /\ last.initialized
           /\ ~last.destroyed
           /\ request.opcode \in {2, 42}) =>
              /\ last.called = <<IF request.opcode = 2 THEN "forget"
                                 ELSE "forget_multi">>
              /\ wire.msgs = << >>
              /\ ~last.moved
              /\ sent[request.unique] = 0
              /\ owed[request.unique] = 0)
    /\ [](\A u \in Uniques : owed[u] = 0 => sent[u] = 0)
    /\ [][LoopReadsOn => (pc' = "receive" /\ sent' = sent /\ run_result' = Running)]_vars

\* a BATCH_FORGET was dispatched to forget_multi, then a later request read
C35_Witness ==
    /\ pc = "dispatch"
    /\ unique = 3
    /\ owed[2] = 0
    /\ sent[2] = 0
    /\ owed[1] = 1
    /\ initialized
    /\ ~destroyed

(***************************************************************************)
(* Properties of a sender that outlives its Channel.                       *)
(***************************************************************************)

\* a thread that holds a Reply uses it or drops it
ThreadSends == held' # held /\ pc' = pc

\* C36: a sender used after its Channel was dropped does not block and does
\* not panic: the write fails with EBADF, send logs the error and returns,
\* and the thread is rid of its Reply with nothing else changed; while the
\* Channel lives the write goes through
C36_SendAfterDropFailsQuietly ==
    /\ []((held # {} /\ pc = "exited") =>
            ENABLED (\E reply \in held : \E fs \in ReplyChoices(reply.kind) :
                        ThreadReply(reply, fs)))
    /\ [](~wire.err.panicked)
    /\ [](chan.fd # "closed" => wire.err.errno = 0)
    /\ [][(ThreadSends /\ chan.fd = "closed") =>
            /\ \E r \in held : held' = held \ {r}
            /\ wire'.by \in {"thread", "drop"}
            /\ wire'.err = [errno |-> EBADF, logged |-> TRUE, panicked |-> FALSE]
            /\ UNCHANGED <<session, outside, chan, owed>>]_vars

\* the Session was dropped while a thread held a Reply, which then answered
C36_Witness ==
    /\ pc = "exited"
    /\ chan.fd = "closed"
    /\ wire.by = "thread"
    /\ wire.fs.act = "ok"
    /\ wire.err.errno = EBADF
    /\ wire.err.logged
    /\ held = {}

(***************************************************************************)
(* Properties of the Session of src/src/session.rs.                        *)
(***************************************************************************)

\* C37: Session::dispatch of src/src/session.rs answers an INIT of an ABI
\* version before 7.6, major below 7 or major 7 with minor below 6, with
\* EPROTO, does not call init and does not set initialized
C37_LegacyOldAbiEPROTO ==
    (/\ legacy.st = "dispatched"
     /\ (legacy.major < 7 \/ (legacy.major = 7 /\ legacy.minor < 6))) =>
        /\ legacy.msgs = <<[unique |-> legacy.unique, ok |-> FALSE, errno |-> EPROTO]>>
        /\ legacy.called = << >>
        /\ ~legacy.initialized

(***************************************************************************)
(* Properties of the session flags over a run of requests.                 *)
(***************************************************************************)

\* C38: in every reachable session state destroyed implies initialized, and
\* over any sequence of requests initialized, once true, stays true and
\* destroyed, once true, stays true
C38_FlagsOrderedAndMonotone ==
    /\ [](destroyed => initialized)
    /\ [][/\ initialized => initialized'
          /\ destroyed => destroyed']_vars

\* a DESTROY set destroyed in a session an earlier INIT had initialized, and
\* a later request, refused, left both flags standing
C38_Witness ==
    /\ Dispatched
    /\ last.initialized
    /\ last.destroyed
    /\ request.opcode = 3
    /\ initialized
    /\ destroyed

\* C39: once a DESTROY has been processed (destroyed is set), no dispatch of
\* a later request calls a Filesystem method other than init and destroy, and
\* none hands a Reply to a handler
C39_NoHandlerAfterDestroy ==
    (Dispatched /\ last.destroyed) =>
        /\ \A i \in 1..Len(last.called) : last.called[i] \in {"init", "destroy"}
        /\ ~last.moved
        /\ ~HandlerGotReply

\* a LOOKUP that followed the DESTROY was turned away without any call
C39_Witness ==
    /\ Dispatched
    /\ last.destroyed
    /\ request.opcode = 1
    /\ last.called = << >>
    /\ wire.msgs = <<ErrorReply(request.unique, EIO)>>

\* C40: only an INIT request changes proto_major, proto_minor or initialized
\* and only a DESTROY request changes destroyed: a dispatch of any other
\* request (unknown opcode, refused with EIO, or routed to a handler) leaves
\* the four session fields as they were, and so does an INIT answered EPROTO
\* for its version; no step other than a dispatch writes them
C40_SessionFieldsFrame ==
    /\ [](Dispatched =>
            /\ (request.opcode # 26 \/ UnsupportedAbi(request.major, request.minor)) =>
                  /\ proto_major = last.proto_major
                  /\ proto_minor = last.proto_minor
                  /\ initialized = last.initialized
            /\ request.opcode # 38 => destroyed = last.destroyed)
    /\ [][pc # "dispatch" => UNCHANGED session]_vars

\* an INIT announcing 7.5 was answered EPROTO in a session an INIT of another
\* version had initialized, and the stored version is still the earlier one
C40_Witness ==
    /\ Dispatched
    /\ request.opcode = 26
    /\ UnsupportedAbi(request.major, request.minor)
    /\ wire.msgs = <<ErrorReply(request.unique, EPROTO)>>
    /\ last.initialized
    /\ request.minor # last.proto_minor
    /\ proto_major = last.proto_major
    /\ proto_minor = last.proto_minor
    /\ initialized

====
